---- MODULE Spec2Model ----
(***************************************************************************)
(* dslib: deterministic discrete-event simulator for distributed           *)
(* algorithms with a depth-first model checker.                            *)
(*                                                                         *)
(* The kernel (sim.rs), the node wrapper (node.rs), the network actor      *)
(* (net.rs) and the facade (system.rs) are modelled as a state machine.    *)
(* Logical time is counted in ticks of 1/RandMod seconds so that the       *)
(* network delay  min + rand() * (max - min)  is an exact integer.         *)
(***************************************************************************)
EXTENDS Integers, Sequences, FiniteSets, TLC

\* ------------------------------------------------------------------ bounds
\* Number of values the random generator can return (r = k / RandMod).
RandMod == 4
\* Seeds range over 0..MaxSeed.
MaxSeed == 1
\* Facade calls (send_local, crash_node, ...) made in one behaviour.
MaxOps == 2
\* Wall-clock seconds that may elapse while the checker runs.
MaxElapsed == 1
\* Step caps handed to step_until_local_message_max_steps range over
\* 0..MaxStepCap.
MaxStepCap == 1
\* Durations handed to step_for_duration range over 0..MaxDuration seconds.
MaxDuration == 2

\* ------------------------------------------------------------- vocabulary
NodeIds == {"a", "b"}
\* "c" is an address at which no actor is ever registered.
Addresses == NodeIds \cup {"c"}
NetId == "net"

Healthy == "Healthy"
Crashed == "Crashed"

Ticks(seconds) == seconds * RandMod

JsonMessage(tip, data) == [tip |-> tip, data |-> data]
NoMsg == JsonMessage("", "")

\* A size taken from the type tag instead of the payload.
MsgSizeOfTip(msg) == Len(msg.tip)

\* Message::size for JsonMessage: the length of the data string.
MsgSize(msg) == Len(msg.data)

\* SysEvent variants, in one record shape.
MessageSend(msg, src, dest) ==
    [type |-> "MessageSend", msg |-> msg, src |-> src, dest |-> dest, name |-> ""]
MessageReceive(msg, src, dest) ==
    [type |-> "MessageReceive", msg |-> msg, src |-> src, dest |-> dest, name |-> ""]
LocalMessageReceive(msg) ==
    [type |-> "LocalMessageReceive", msg |-> msg, src |-> "", dest |-> "", name |-> ""]
TimerFired(name) ==
    [type |-> "TimerFired", msg |-> NoMsg, src |-> "", dest |-> "", name |-> name]

\* --------------------------------------------------------------- utilities
Last(seq) == seq[Len(seq)]
Front(seq) == SubSeq(seq, 1, Len(seq) - 1)
Range(seq) == {seq[i] : i \in 1..Len(seq)}
RemoveAt(seq, i) == SubSeq(seq, 1, i - 1) \o SubSeq(seq, i + 1, Len(seq))
InsertAt(seq, i, x) == SubSeq(seq, 1, i - 1) \o <<x>> \o SubSeq(seq, i, Len(seq))
MapInsert(f, k, v) == [x \in DOMAIN f \cup {k} |-> IF x = k THEN v ELSE f[x]]
MapRemove(f, k) == [x \in DOMAIN f \ {k} |-> f[x]]
EmptyMap == [x \in {} |-> 0]

RECURSIVE Reverse(_)
Reverse(seq) == IF seq = <<>> THEN <<>> ELSE Reverse(Tail(seq)) \o <<Head(seq)>>

\* ---------------------------------------------------------------- sim.rs
CmpInt(x, y) == IF x < y THEN -1 ELSE IF x = y THEN 0 ELSE 1

\* A plausible slip in EventEntry::cmp: the id tie-break is not reversed.
CmpTieForward(self, other) ==
    LET t == CmpInt(other.time, self.time)
    IN  IF t # 0 THEN t ELSE CmpInt(self.id, other.id)

\* EventEntry::cmp: reversed on time, then reversed on id, so that the
\* maximum of the BinaryHeap is the entry with the least (time, id).
Cmp(self, other) ==
    LET t == CmpInt(other.time, self.time)
    IN  IF t # 0 THEN t ELSE CmpInt(other.id, self.id)

\* BinaryHeap::pop: the greatest entry under Ord.
HeapPop(heap) == CHOOSE e \in heap : \A f \in heap : Cmp(e, f) >= 0

\* Pcg64, abstracted to a full-period generator over 0..RandMod-1.
NextRand(state) == (state + 1) % RandMod

\* The entry built by Simulation::add_event.
AddEventEntry(count, clk, event, src, dest, delay) ==
    [id |-> count, time |-> clk + delay, src |-> src, dest |-> dest, event |-> event]

\* The loop of step() over ctx.events: one add_event per emission, with
\* src the handling actor and consecutive ids.
\* A drain that hands out the fresh ids from the last emission to the first.
DrainEmittedReversed(count, clk, src, evs) ==
    [i \in 1..Len(evs) |->
        AddEventEntry(count + Len(evs) - i, clk, evs[i].event, src, evs[i].dest, evs[i].delay)]

RECURSIVE DrainEmitted(_, _, _, _)
DrainEmitted(count, clk, src, evs) ==
    IF evs = <<>> THEN <<>>
    ELSE <<AddEventEntry(count, clk, Head(evs).event, src, Head(evs).dest, Head(evs).delay)>>
         \o DrainEmitted(count + 1, clk, src, Tail(evs))

\* A context whose emissions are numbered from zero in every handler.
NewContextNumberedFromZero(id, time, rnd, next_event_id, w) ==
    [id |-> id, time |-> time, rand |-> rnd, next_event_id |-> 0,
     events |-> <<>>, canceled_events |-> <<>>, w |-> w, draws |-> 0]

\* ActorContext as built by step(); w is the wrapper state the node
\* Context borrows (timers, local_events, local_mailbox, sent count).
\* draws counts the calls of rand() made through this context.
NewContext(id, time, rnd, next_event_id, w) ==
    [id |-> id, time |-> time, rand |-> rnd, next_event_id |-> next_event_id,
     events |-> <<>>, canceled_events |-> <<>>, w |-> w, draws |-> 0]

\* ActorContext::emit; the id it returns is the old next_event_id.
Emit(h, event, dest, delay) ==
    [h EXCEPT !.events = Append(@, [event |-> event, dest |-> dest, delay |-> delay]),
              !.next_event_id = @ + 1]

\* ActorContext::rand: the value drawn is h.rand after the call.
CtxRand(h) == [h EXCEPT !.rand = NextRand(@), !.draws = @ + 1]

\* ActorContext::cancel_event
CtxCancelEvent(h, event_id) == [h EXCEPT !.canceled_events = Append(@, event_id)]

\* --------------------------------------------------------------- node.rs
\* A wrapper that starts with a message already counted as received.
NewNodeActorCounted ==
    [node_state |-> 0, timers |-> EmptyMap, local_events |-> <<>>,
     local_mailbox |-> <<>>, status |-> Healthy, sent_message_count |-> 0,
     received_message_count |-> 1, clock_skew |-> 0]

\* NodeActor::new
NewNodeActor ==
    [node_state |-> 0, timers |-> EmptyMap, local_events |-> <<>>,
     local_mailbox |-> <<>>, status |-> Healthy, sent_message_count |-> 0,
     received_message_count |-> 0, clock_skew |-> 0]

\* A send that hands every message to the network, self-addressed or not.
CtxSendViaNet(h, msg, dest) ==
    [Emit(h, MessageSend(msg, h.id, dest), NetId, 0)
        EXCEPT !.w.sent_message_count = @ + 1]

\* Context::send
CtxSend(h, msg, dest) ==
    LET e == IF h.id = dest
             THEN Emit(h, MessageReceive(msg, h.id, dest), dest, 0)
             ELSE Emit(h, MessageSend(msg, h.id, dest), NetId, 0)
    IN  [e EXCEPT !.w.sent_message_count = @ + 1]

\* A send_local that fills the mailbox and writes no record.
CtxSendLocalUnlogged(h, msg) == [h EXCEPT !.w.local_mailbox = Append(@, msg)]

\* Context::send_local
CtxSendLocal(h, msg) ==
    [h EXCEPT !.w.local_events =
                  Append(@, [time |-> h.time + h.w.clock_skew, msg |-> msg,
                             tip |-> "LocalMessageSend"]),
              !.w.local_mailbox = Append(@, msg)]

\* A set_timer that starts from an empty timer table.
CtxSetTimerClearing(h, name, delay) ==
    LET e == Emit(h, TimerFired(name), h.id, delay)
    IN  [e EXCEPT !.w.timers = MapInsert(EmptyMap, <<h.id, name>>, h.next_event_id)]

\* Context::set_timer
CtxSetTimer(h, name, delay) ==
    LET e == Emit(h, TimerFired(name), h.id, delay)
    IN  [e EXCEPT !.w.timers = MapInsert(@, <<h.id, name>>, h.next_event_id)]

\* Context::cancel_timer
CtxCancelTimer(h, name) ==
    LET key == <<h.id, name>>
    IN  IF key \in DOMAIN h.w.timers
        THEN [CtxCancelEvent(h, h.w.timers[key]) EXCEPT !.w.timers = MapRemove(@, key)]
        ELSE h

\* ------------------------------------------------------------- pynode.rs
\* The user's node logic runs in the scripting host and hands back three
\* lists: messages to send, local messages to emit, timer actions.  The
\* programs below are the node logic the model is exercised with; which
\* branch runs is decided by the tip of the message, so that the inputs
\* of the facade select the behaviour.
Peer(id) == IF id = "a" THEN "b" ELSE "a"

NodeActions(state, sent, sent_local, timer_actions) ==
    [state |-> state, sent |-> sent, sent_local |-> sent_local,
     timer_actions |-> timer_actions]

\* Node::on_local_message of the node program.
NodeOnLocalMessage(id, state, msg) ==
    CASE msg.tip = "PING"   -> NodeActions(state, <<<<msg, Peer(id)>>>>, <<>>, <<>>)
      [] msg.tip = "SELF"   -> NodeActions(state, <<<<JsonMessage("PING", msg.data), id>>>>, <<>>, <<>>)
      [] msg.tip = "SET"    -> NodeActions(state, <<>>, <<>>, <<<<"t", Ticks(2)>>>>)
      [] msg.tip = "SET2"   -> NodeActions(state, <<>>, <<>>, <<<<"t", Ticks(1)>>, <<"t", Ticks(3)>>>>)
      [] msg.tip = "CANCEL" -> NodeActions(state, <<>>, <<>>, <<<<"t", -1>>>>)
      [] msg.tip = "REQ"    -> NodeActions(state, <<<<msg, Peer(id)>>>>, <<>>, <<<<"r", Ticks(3)>>>>)
      [] msg.tip = "CAST"   -> NodeActions(state, <<<<msg, Peer(id)>>, <<msg, "c">>>>, <<>>, <<>>)
      [] msg.tip = "NOTE"   -> NodeActions(state, <<>>,
                                           <<JsonMessage("NOTE", "1"), JsonMessage("NOTE", "2")>>, <<>>)
      [] msg.tip = "ping"   -> NodeActions(state, <<<<msg, Peer(id)>>>>, <<>>, <<>>)
      [] msg.tip = "SETP"   -> NodeActions(state, <<>>, <<>>, <<<<"p", Ticks(1)>>>>)
      [] msg.tip = "SETX"   -> NodeActions(state, <<>>, <<>>, <<<<"x", Ticks(1)>>>>)
      [] OTHER              -> NodeActions(state, <<>>, <<>>, <<>>)

\* Node::on_message of the node program; the state counts deliveries.
NodeOnMessage(id, state, msg, from) ==
    CASE msg.tip = "PING" -> NodeActions(state + 1, <<>>, <<msg>>, <<>>)
      [] msg.tip = "REQ"  -> NodeActions(state + 1, <<<<JsonMessage("ACK", msg.data), from>>>>,
                                         <<msg>>, <<>>)
      [] msg.tip = "ACK"  -> NodeActions(state, <<>>, <<>>, <<<<"r", -1>>>>)
      [] msg.tip = "ping" -> NodeActions(state, <<>>, <<JsonMessage("ack", msg.data)>>, <<>>)
      [] OTHER            -> NodeActions(state, <<>>, <<>>, <<>>)

\* Node::on_timer of the node program.  Timer "p" sets itself again the
\* first time it fires, timer "x" cancels its own name when it fires.
NodeOnTimer(id, state, name) ==
    CASE name = "t" -> NodeActions(state, <<>>, <<JsonMessage("FIRED", name)>>, <<>>)
      [] name = "r" -> NodeActions(state, <<<<JsonMessage("REQ", "m"), Peer(id)>>>>, <<>>, <<>>)
      [] name = "p" -> IF state = 0
                       THEN NodeActions(state + 1, <<>>, <<>>, <<<<"p", Ticks(1)>>>>)
                       ELSE NodeActions(state, <<>>, <<JsonMessage("FIRED", name)>>, <<>>)
      [] name = "x" -> NodeActions(state, <<>>, <<JsonMessage("FIRED", name)>>, <<<<"x", -1>>>>)
      [] OTHER      -> NodeActions(state, <<>>, <<>>, <<>>)

RECURSIVE ApplySent(_, _)
ApplySent(h, sent) ==
    IF sent = <<>> THEN h
    ELSE ApplySent(CtxSend(h, Head(sent)[1], Head(sent)[2]), Tail(sent))

RECURSIVE ApplySentLocal(_, _)
ApplySentLocal(h, sent_local) ==
    IF sent_local = <<>> THEN h
    ELSE ApplySentLocal(CtxSendLocal(h, Head(sent_local)), Tail(sent_local))

RECURSIVE ApplyTimerActions(_, _)
ApplyTimerActions(h, timer_actions) ==
    IF timer_actions = <<>> THEN h
    ELSE LET t == Head(timer_actions)
         IN  ApplyTimerActions(IF t[2] < 0 THEN CtxCancelTimer(h, t[1])
                                           ELSE CtxSetTimer(h, t[1], t[2]),
                               Tail(timer_actions))

\* PyNode::handle_node_actions: sends, then local sends, then timers;
\* the node's own state is whatever the handler left.
HandleNodeActions(h, acts) ==
    LET h1 == ApplySent(h, acts.sent)
        h2 == ApplySentLocal(h1, acts.sent_local)
        h3 == ApplyTimerActions(h2, acts.timer_actions)
    IN  [h3 EXCEPT !.w.node_state = acts.state]

\* --------------------------------------------------------------- node.rs
\* A wrapper that keeps the entry of the timer that fired.
ForgetTimerAfterwards(h, name) == h

\* The TimerFired arm of NodeActor::on drops the entry of the timer
\* before the node's on_timer runs.
ForgetTimer(h, name) == [h EXCEPT !.w.timers = MapRemove(@, <<h.id, name>>)]

\* NodeActor::on for a healthy wrapper.
NodeActorOn(h, event) ==
    CASE event.type = "MessageReceive" ->
            LET r == HandleNodeActions(h, NodeOnMessage(h.id, h.w.node_state, event.msg, event.src))
            IN  [r EXCEPT !.w.received_message_count = @ + 1]
      [] event.type = "LocalMessageReceive" ->
            LET l == [h EXCEPT !.w.local_events =
                          Append(@, [time |-> h.time, msg |-> event.msg,
                                     tip |-> "LocalMessageReceive"])]
            IN  HandleNodeActions(l, NodeOnLocalMessage(h.id, h.w.node_state, event.msg))
      [] event.type = "TimerFired" ->
            LET t == ForgetTimer(h, event.name)
            IN  HandleNodeActions(t, NodeOnTimer(h.id, h.w.node_state, event.name))
      [] OTHER -> h

\* A wrapper that reports itself active whatever its status.
IsActiveAlways(w) == TRUE

\* NodeActor::is_active
IsActive(w) == w.status = Healthy

\* NodeActor::get_state: status and clock_skew are not part of it.
NodeGetState(w) ==
    [node_state |-> w.node_state, timers |-> w.timers, local_events |-> w.local_events,
     local_mailbox |-> w.local_mailbox, sent_message_count |-> w.sent_message_count,
     received_message_count |-> w.received_message_count]

\* A set_state that forgets the timer table.
NodeSetStateKeepTimers(w, state) ==
    [w EXCEPT !.node_state = state.node_state,
              !.local_events = state.local_events,
              !.local_mailbox = state.local_mailbox,
              !.sent_message_count = state.sent_message_count,
              !.received_message_count = state.received_message_count]

\* NodeActor::set_state
NodeSetState(w, state) ==
    [w EXCEPT !.node_state = state.node_state, !.timers = state.timers,
              !.local_events = state.local_events,
              !.local_mailbox = state.local_mailbox,
              !.sent_message_count = state.sent_message_count,
              !.received_message_count = state.received_message_count]

\* ---------------------------------------------------------------- net.rs
\* Rates are fractions <<num, den>>; a draw is r / RandMod.
DrawGE(r, rate) == r * rate[2] >= rate[1] * RandMod

\* Network::new
NewNetwork ==
    [min_delay |-> 1, max_delay |-> 1, drop_rate |-> <<0, 1>>, dupl_rate |-> <<0, 1>>,
     corrupt_rate |-> <<0, 1>>, crashed_nodes |-> {}, drop_incoming |-> {},
     drop_outgoing |-> {}, disabled_links |-> {}, message_count |-> 0, traffic |-> 0]

RECURSIVE EmitTimes(_, _, _, _, _)
EmitTimes(h, n, event, dest, delay) ==
    IF n = 0 THEN h ELSE EmitTimes(Emit(h, event, dest, delay), n - 1, event, dest, delay)

\* A delay that differs from one message to the next although the two
\* bounds are equal: it shrinks as the event ids grow.
NetDelayPerMessage(nw, h) ==
    nw.min_delay * RandMod + (RandMod - 1 - (h.next_event_id % RandMod))

\* self.min_delay + ctx.rand() * (self.max_delay - self.min_delay), in
\* ticks; h is the context after the draw, h.rand / RandMod the value drawn.
NetDelay(nw, h) == nw.min_delay * RandMod + h.rand * (nw.max_delay - nw.min_delay)

\* The delivery branch of Network::on: draws for delay, corruption,
\* duplication and, when duplicating, the number of copies.
NetDeliver(nw, h, msg, src, dest) ==
    LET h2 == CtxRand(h)
        delay == NetDelay(nw, h2)
        h3 == CtxRand(h2)
        e == MessageReceive(msg, src, dest)
        h4 == CtxRand(h3)
    IN  IF DrawGE(h4.rand, nw.dupl_rate)
        THEN Emit(h4, e, dest, delay)
        ELSE LET h5 == CtxRand(h4)
                 dups == ((h5.rand * 2 + RandMod - 1) \div RandMod) + 1
             IN  EmitTimes(h5, dups, e, dest, delay)

\* Network::set_drop_rate
NetSetDropRate(nw, drop_rate) == [nw EXCEPT !.drop_rate = drop_rate]

\* Network::set_dupl_rate
NetSetDuplRate(nw, dupl_rate) == [nw EXCEPT !.dupl_rate = dupl_rate]

\* Network::drop_incoming
NetDropIncoming(nw, node_id) == [nw EXCEPT !.drop_incoming = @ \cup {node_id}]

\* Network::drop_outgoing
NetDropOutgoing(nw, node_id) == [nw EXCEPT !.drop_outgoing = @ \cup {node_id}]

\* Network::disable_link
NetDisableLink(nw, from, to) == [nw EXCEPT !.disabled_links = @ \cup {<<from, to>>}]

\* A partition that cuts the links from the first group to the second only.
NetMakePartitionOneWay(nw, group1, group2) ==
    [nw EXCEPT !.disabled_links = @ \cup {<<n1, n2>> : n1 \in group1, n2 \in group2}]

\* Network::make_partition
NetMakePartition(nw, group1, group2) ==
    [nw EXCEPT !.disabled_links =
                  @ \cup {<<n1, n2>> : n1 \in group1, n2 \in group2}
                    \cup {<<n2, n1>> : n1 \in group1, n2 \in group2}]

\* A reset that forgets the crashed nodes as well.
NetResetNetworkAll(nw) ==
    [nw EXCEPT !.disabled_links = {}, !.drop_incoming = {}, !.drop_outgoing = {},
               !.crashed_nodes = {}]

\* Network::reset_network
NetResetNetwork(nw) ==
    [nw EXCEPT !.disabled_links = {}, !.drop_incoming = {}, !.drop_outgoing = {}]

\* A network that never looks at its crashed set.
SenderCrashedNever(nw, src) == FALSE

\* if !self.crashed_nodes.contains(&src.to())
SenderCrashed(nw, src) == src \in nw.crashed_nodes

\* A link test with the two ends swapped.
LinkDisabledReversed(nw, src, dest) == <<dest, src>> \in nw.disabled_links

\* self.disabled_links.contains(&(src.to(), dest.to()))
LinkDisabled(nw, src, dest) == <<src, dest>> \in nw.disabled_links

\* Network::on; returns the network and the context after the call.
NetworkOn(nw, h, event) ==
    IF event.type # "MessageSend" THEN [net |-> nw, h |-> h]
    ELSE LET counted == [nw EXCEPT !.message_count = @ + 1,
                                   !.traffic = @ + MsgSize(event.msg)]
         IN  IF SenderCrashed(nw, event.src) THEN [net |-> counted, h |-> h]
             ELSE LET h1 == CtxRand(h)
                  IN  IF /\ DrawGE(h1.rand, nw.drop_rate)
                         /\ event.src \notin nw.drop_outgoing
                         /\ event.dest \notin nw.drop_incoming
                         /\ ~LinkDisabled(nw, event.src, event.dest)
                      THEN [net |-> counted,
                            h |-> NetDeliver(nw, h1, event.msg, event.src, event.dest)]
                      ELSE [net |-> counted, h |-> h1]

\* ------------------------------------------------------------------ state
VARIABLES
    \* Simulation (sim.rs)
    clock, actors, events, canceled_events, undelivered_events, event_count,
    rand, model_checking_trace,
    \* Network (net.rs), shared by the facade and the kernel
    net,
    \* System (system.rs); its `nodes` map has the keys of `actors`
    node_ids, crashed_nodes,
    \* the running checker: control point, DFS frame, call stack, result,
    \* predicate, wall clock and limit, and the trace handed to the caller
    mc_pc, mc_events, mc_stack, mc_result, mc_check, mc_elapsed, limit_seconds,
    mc_trace,
    \* history: what each step() popped and did, the last value step()
    \* returned, the number of facade calls made, and what the checker saw
    dispatch_log, step_result, ops, mc_hist,
    \* history: the last configuration call of the facade and the state of
    \* the network and of the node bookkeeping it found
    call

simVars == <<clock, actors, events, canceled_events, undelivered_events,
             event_count, rand, model_checking_trace, net>>
sysVars == <<node_ids, crashed_nodes>>
mcVars == <<mc_pc, mc_events, mc_stack, mc_result, mc_check, mc_elapsed,
            limit_seconds, mc_trace, mc_hist>>
vars == <<simVars, sysVars, mcVars, dispatch_log, step_result, ops, call>>

\* The part of the simulator that step() reads and writes besides the
\* queue it pops from.
SimState ==
    [clock |-> clock, actors |-> actors, net |-> net,
     canceled_events |-> canceled_events,
     undelivered_events |-> undelivered_events,
     event_count |-> event_count, rand |-> rand]

\* ---------------------------------------------------------------- sim.rs
\* What step() does after the handler returned: ctx.events are added with
\* src = e.dest, ctx.canceled_events are inserted into the cancellation set.
AfterHandler(s, e, h) ==
    [s |-> [s EXCEPT !.event_count = @ + Len(h.events),
                     !.rand = h.rand,
                     !.canceled_events = @ \cup Range(h.canceled_events)],
     emitted |-> DrainEmitted(s.event_count, s.clock, e.dest, h.events),
     outcome |-> "handled", draws |-> h.draws]

\* A step() that never consults the cancellation set.
IsCanceledNever(s, e) == FALSE

\* if !self.canceled_events.remove(&e.id): was the popped entry canceled?
IsCanceled(s, e) == e.id \in s.canceled_events

\* The body of Simulation::step once an entry e has been popped, whatever
\* it was popped from.  outcome is one of canceled, handled, inactive,
\* undelivered.
StepEntry(s, e) ==
    IF IsCanceled(s, e)
    THEN [s |-> [s EXCEPT !.canceled_events = @ \ {e.id}],
          emitted |-> <<>>, outcome |-> "canceled", draws |-> 0]
    ELSE LET t == [s EXCEPT !.clock = e.time]
         IN  IF e.dest = NetId
             THEN LET h == NewContext(e.dest, t.clock, t.rand, t.event_count, NewNodeActor)
                      r == NetworkOn(t.net, h, e.event)
                  IN  AfterHandler([t EXCEPT !.net = r.net], e, r.h)
             ELSE IF e.dest \in DOMAIN t.actors
             THEN IF IsActive(t.actors[e.dest])
                  THEN LET h == NewContext(e.dest, t.clock, t.rand, t.event_count,
                                           t.actors[e.dest])
                           r == NodeActorOn(h, e.event)
                       IN  AfterHandler([t EXCEPT !.actors[e.dest] = r.w], e, r)
                  ELSE [s |-> t, emitted |-> <<>>, outcome |-> "inactive", draws |-> 0]
             ELSE [s |-> [t EXCEPT !.undelivered_events = Append(@, e)],
                   emitted |-> <<>>, outcome |-> "undelivered", draws |-> 0]

SetSimState(s) ==
    /\ clock' = s.clock
    /\ actors' = s.actors
    /\ net' = s.net
    /\ canceled_events' = s.canceled_events
    /\ undelivered_events' = s.undelivered_events
    /\ event_count' = s.event_count
    /\ rand' = s.rand

\* Simulation::step(None), as the facade's step() calls it.
Step ==
    /\ mc_pc = "idle"
    /\ IF events = {}
       THEN /\ step_result' = FALSE
            /\ UNCHANGED <<simVars, sysVars, mcVars, dispatch_log, ops, call>>
       ELSE LET e == HeapPop(events)
                r == StepEntry(SimState, e)
            IN  /\ SetSimState(r.s)
                /\ events' = (events \ {e}) \cup Range(r.emitted)
                /\ dispatch_log' = Append(dispatch_log,
                      [entry |-> e, outcome |-> r.outcome, pending |-> events,
                       emitted |-> r.emitted, draws |-> r.draws,
                       canceled |-> e.id \in canceled_events,
                       registered |-> e.dest \in DOMAIN actors \cup {NetId},
                       active |-> (e.dest \in DOMAIN actors => actors[e.dest].status = Healthy)])
                /\ step_result' = TRUE
                /\ UNCHANGED <<model_checking_trace, sysVars, mcVars, ops, call>>

\* ------------------------------------------------------------- system.rs
\* The messages the facade injects.
LocalTips == {"PING", "SELF", "SET", "SET2", "CANCEL", "REQ"}

\* The local messages a test injects: the messages that make a node talk
\* to its peer go to either node, those that only concern the node itself
\* go to node "a", and one message goes to an address nobody registered.
Injections ==
    ({"PING", "REQ", "SET"} \X NodeIds)
        \cup ((LocalTips \ {"PING", "REQ", "SET"}) \X {"a"})
        \cup {<<"PING", "c">>}

\* The record of a facade call: its name, its arguments as sets of names,
\* what it found, and what it returned: Ok or Err, the messages handed
\* back, the number of entries step() popped during the call, and the
\* count a counting call returned.
Call(op, arg) ==
    [op |-> op, arg |-> arg,
     before |-> [net |-> net, crashed_nodes |-> crashed_nodes, node_ids |-> node_ids,
                 registered |-> DOMAIN actors],
     ret |-> [ok |-> TRUE, messages |-> <<>>, steps |-> 0, count |-> 0]]

NoCall ==
    [op |-> "", arg |-> <<>>,
     before |-> [net |-> NewNetwork, crashed_nodes |-> {}, node_ids |-> <<>>,
                 registered |-> {}],
     ret |-> [ok |-> TRUE, messages |-> <<>>, steps |-> 0, count |-> 0]]

\* System::send_local
SendLocal(msg, dest) ==
    /\ mc_pc = "idle"
    /\ ops < MaxOps
    /\ events' = events \cup
          {AddEventEntry(event_count, clock, LocalMessageReceive(msg), "local@" \o dest, dest, 0)}
    /\ event_count' = event_count + 1
    /\ ops' = ops + 1
    /\ call' = Call("send_local", <<{dest}, {msg.tip}>>)
    /\ UNCHANGED <<clock, actors, canceled_events, undelivered_events, rand,
                   model_checking_trace, net, sysVars, mcVars, dispatch_log, step_result>>

\* NodeActor::crash
NodeCrash(w) == [w EXCEPT !.status = Crashed]

\* A network that is never told about a crash.
NetNodeCrashedUnrecorded(nw, node_id) == nw

\* Network::node_crashed
NetNodeCrashed(nw, node_id) == [nw EXCEPT !.crashed_nodes = @ \cup {node_id}]

\* System::crash_node on a registered node.
CrashNode(node_id) ==
    /\ mc_pc = "idle"
    /\ ops < MaxOps
    /\ node_id \in DOMAIN actors
    /\ crashed_nodes' = crashed_nodes \cup {node_id}
    /\ actors' = [actors EXCEPT ![node_id] = NodeCrash(@)]
    /\ net' = NetNodeCrashed(net, node_id)
    /\ ops' = ops + 1
    /\ call' = Call("crash_node", <<{node_id}>>)
    /\ UNCHANGED <<clock, events, canceled_events, undelivered_events, event_count,
                   rand, model_checking_trace, node_ids, mcVars, dispatch_log, step_result>>

\* A facade call that only reconfigures the network.
ConfigureNetwork(op, arg, nw) ==
    /\ mc_pc = "idle"
    /\ ops < MaxOps
    /\ net' = nw
    /\ ops' = ops + 1
    /\ call' = Call(op, arg)
    /\ UNCHANGED <<clock, actors, events, canceled_events, undelivered_events,
                   event_count, rand, model_checking_trace, sysVars, mcVars,
                   dispatch_log, step_result>>

\* System::set_drop_rate
SetDropRate(drop_rate) ==
    ConfigureNetwork("set_drop_rate", <<>>, NetSetDropRate(net, drop_rate))

\* System::set_dupl_rate
SetDuplRate(dupl_rate) ==
    ConfigureNetwork("set_dupl_rate", <<>>, NetSetDuplRate(net, dupl_rate))

\* System::drop_incoming
DropIncoming(node_id) ==
    ConfigureNetwork("drop_incoming", <<{node_id}>>, NetDropIncoming(net, node_id))

\* System::drop_outgoing
DropOutgoing(node_id) ==
    ConfigureNetwork("drop_outgoing", <<{node_id}>>, NetDropOutgoing(net, node_id))

\* System::disable_link
DisableLink(from, to) ==
    ConfigureNetwork("disable_link", <<{from}, {to}>>, NetDisableLink(net, from, to))

\* The loop of System::disable_all_links over the listed nodes.
RECURSIVE DisableLinksOf(_, _)
DisableLinksOf(nw, pairs) ==
    IF pairs = <<>> THEN nw
    ELSE DisableLinksOf(IF Head(pairs)[1] # Head(pairs)[2]
                        THEN NetDisableLink(nw, Head(pairs)[1], Head(pairs)[2])
                        ELSE nw,
                        Tail(pairs))

\* for from in &self.node_ids { for to in &self.node_ids { ... } }
IdPairs(ids) ==
    [k \in 1..(Len(ids) * Len(ids)) |->
        <<ids[((k - 1) \div Len(ids)) + 1], ids[((k - 1) % Len(ids)) + 1]>>]

\* System::disable_all_links
DisableAllLinks ==
    ConfigureNetwork("disable_all_links", <<>>, DisableLinksOf(net, IdPairs(node_ids)))

\* System::make_partition
MakePartition(group1, group2) ==
    ConfigureNetwork("make_partition", <<group1, group2>>,
                     NetMakePartition(net, group1, group2))

\* System::reset_network
ResetNetwork ==
    ConfigureNetwork("reset_network", <<>>, NetResetNetwork(net))

\* An add_node that appends the id to the list whether it is known or not.
SysAddNodeAlwaysListed(sys, id) ==
    [sys EXCEPT !.actors = MapInsert(@, id, NewNodeActor),
                !.node_ids = Append(@, id),
                !.crashed_nodes = @ \ {id},
                !.net.crashed_nodes = @ \ {id}]

\* System::add_node on the facade state sys: the wrapper is replaced in
\* the kernel and in the node map; a known id that is crashed is
\* recovered, a known id that is not is restarted, an unknown id is
\* appended to the id list.
SysAddNode(sys, id) ==
    LET replaced == [sys EXCEPT !.actors = MapInsert(@, id, NewNodeActor)]
    IN  IF id \in DOMAIN sys.actors
        THEN IF id \in sys.crashed_nodes
             THEN [replaced EXCEPT !.crashed_nodes = @ \ {id},
                                   !.net.crashed_nodes = @ \ {id}]
             ELSE replaced
        ELSE [replaced EXCEPT !.node_ids = Append(@, id)]

\* System::add_node
AddNode(id) ==
    /\ mc_pc = "idle"
    /\ ops < MaxOps
    /\ LET sys == SysAddNode([actors |-> actors, node_ids |-> node_ids,
                              crashed_nodes |-> crashed_nodes, net |-> net], id)
       IN  /\ actors' = sys.actors
           /\ node_ids' = sys.node_ids
           /\ crashed_nodes' = sys.crashed_nodes
           /\ net' = sys.net
    /\ ops' = ops + 1
    /\ call' = Call("add_node", <<{id}>>)
    /\ UNCHANGED <<clock, events, canceled_events, undelivered_events, event_count,
                   rand, model_checking_trace, mcVars, dispatch_log, step_result>>

\* A check_mailbox that hands the messages back and keeps them.
NodeCheckMailboxKeeping(w) == [w |-> w, messages |-> w.local_mailbox]

\* NodeActor::check_mailbox; None is the empty sequence of messages.
NodeCheckMailbox(w) ==
    [w |-> [w EXCEPT !.local_mailbox = <<>>], messages |-> w.local_mailbox]

\* System::check_mailbox on a registered node.
CheckMailbox(node_id) ==
    /\ mc_pc = "idle"
    /\ ops < MaxOps
    /\ node_id \in DOMAIN actors
    /\ LET m == NodeCheckMailbox(actors[node_id])
       IN  /\ actors' = [actors EXCEPT ![node_id] = m.w]
           /\ call' = [Call("check_mailbox", <<{node_id}>>)
                          EXCEPT !.ret.ok = m.messages # <<>>,
                                 !.ret.messages = m.messages]
    /\ ops' = ops + 1
    /\ UNCHANGED <<clock, events, canceled_events, undelivered_events, event_count,
                   rand, model_checking_trace, net, sysVars, mcVars, dispatch_log,
                   step_result>>

\* The kernel as the stepping loops of the facade see it: the simulator,
\* its queue, the dispatch history, the value the last step() returned
\* and the number of entries popped so far.
Kernel ==
    [s |-> SimState, events |-> events, log |-> dispatch_log, ok |-> TRUE, steps |-> 0]

\* System::step, that is Simulation::step(None), on that record.
KernelStep(k) ==
    IF k.events = {} THEN [k EXCEPT !.ok = FALSE]
    ELSE LET e == HeapPop(k.events)
             r == StepEntry(k.s, e)
         IN  [s |-> r.s,
              events |-> (k.events \ {e}) \cup Range(r.emitted),
              log |-> Append(k.log,
                        [entry |-> e, outcome |-> r.outcome, pending |-> k.events,
                         emitted |-> r.emitted, draws |-> r.draws,
                         canceled |-> e.id \in k.s.canceled_events,
                         registered |-> e.dest \in DOMAIN k.s.actors \cup {NetId},
                         active |-> (e.dest \in DOMAIN k.s.actors
                                        => k.s.actors[e.dest].status = Healthy)]),
              ok |-> TRUE,
              steps |-> k.steps + 1]

\* The loop of step_until_local_message: while self.step() { match
\* self.check_mailbox(node_id) { Some(messages) => return Ok(messages) } }
\* Err("No messages")
RECURSIVE StepUntilLocalMessageLoop(_, _)
StepUntilLocalMessageLoop(k, node_id) ==
    LET k1 == KernelStep(k)
    IN  IF ~k1.ok THEN [k |-> k1, ok |-> FALSE, messages |-> <<>>]
        ELSE LET m == NodeCheckMailbox(k1.s.actors[node_id])
             IN  IF m.messages # <<>>
                 THEN [k |-> [k1 EXCEPT !.s.actors[node_id] = m.w],
                       ok |-> TRUE, messages |-> m.messages]
                 ELSE StepUntilLocalMessageLoop(k1, node_id)

\* The loop of step_until_local_message_max_steps:
\* while self.step() && steps <= max_steps { ...; steps += 1 }
RECURSIVE StepUntilLocalMessageMaxStepsLoop(_, _, _, _)
StepUntilLocalMessageMaxStepsLoop(k, node_id, max_steps, steps) ==
    LET k1 == KernelStep(k)
    IN  IF ~(k1.ok /\ steps <= max_steps) THEN [k |-> k1, ok |-> FALSE, messages |-> <<>>]
        ELSE LET m == NodeCheckMailbox(k1.s.actors[node_id])
             IN  IF m.messages # <<>>
                 THEN [k |-> [k1 EXCEPT !.s.actors[node_id] = m.w],
                       ok |-> TRUE, messages |-> m.messages]
                 ELSE StepUntilLocalMessageMaxStepsLoop(k1, node_id, max_steps, steps + 1)

\* What a stepping call of the facade leaves behind and returns.
SteppingCall(op, arg, r) ==
    /\ SetSimState(r.k.s)
    /\ events' = r.k.events
    /\ dispatch_log' = r.k.log
    /\ step_result' = r.k.ok
    /\ ops' = ops + 1
    /\ call' = [Call(op, arg)
                   EXCEPT !.ret.ok = r.ok, !.ret.messages = r.messages,
                          !.ret.steps = r.k.steps]
    /\ UNCHANGED <<model_checking_trace, sysVars, mcVars>>

\* System::step_until_local_message on a registered node.
StepUntilLocalMessage(node_id) ==
    /\ mc_pc = "idle"
    /\ ops < MaxOps
    /\ node_id \in DOMAIN actors
    /\ SteppingCall("step_until_local_message", <<{node_id}>>,
                    StepUntilLocalMessageLoop(Kernel, node_id))

\* System::step_until_local_message_max_steps on a registered node.
StepUntilLocalMessageMaxSteps(node_id, max_steps) ==
    /\ mc_pc = "idle"
    /\ ops < MaxOps
    /\ node_id \in DOMAIN actors
    /\ SteppingCall("step_until_local_message_max_steps", <<{node_id}, {max_steps}>>,
                    StepUntilLocalMessageMaxStepsLoop(Kernel, node_id, max_steps, 0))

\* The loop of Simulation::step_for_duration:
\* while self.step(None) && self.time() < end_time {}
RECURSIVE StepForDurationLoop(_, _)
StepForDurationLoop(k, end_time) ==
    LET k1 == KernelStep(k)
    IN  IF k1.ok /\ k1.s.clock < end_time THEN StepForDurationLoop(k1, end_time) ELSE k1

\* System::step_for_duration: end_time = self.time() + duration.
StepForDuration(duration) ==
    /\ mc_pc = "idle"
    /\ ops < MaxOps
    /\ SteppingCall("step_for_duration", <<{duration}>>,
                    [k |-> StepForDurationLoop(Kernel, clock + duration),
                     ok |-> TRUE, messages |-> <<>>])

\* A read that leaves the log as it was.
ReadUndeliveredEventsKeeping(s) == [s |-> s, events |-> s.undelivered_events]

\* Simulation::read_undelivered_events: self.undelivered_events.drain(..)
ReadUndeliveredEvents(s) ==
    [s |-> [s EXCEPT !.undelivered_events = <<>>], events |-> s.undelivered_events]

\* System::count_undelivered_events
CountUndeliveredEvents ==
    /\ mc_pc = "idle"
    /\ ops < MaxOps
    /\ LET r == ReadUndeliveredEvents(SimState)
       IN  /\ undelivered_events' = r.s.undelivered_events
           /\ call' = [Call("count_undelivered_events", <<>>)
                          EXCEPT !.ret.count = Len(r.events)]
    /\ ops' = ops + 1
    /\ UNCHANGED <<clock, actors, events, canceled_events, event_count, rand,
                   model_checking_trace, net, sysVars, mcVars, dispatch_log,
                   step_result>>

\* ------------------------------------------------ test/guarantees main.rs
\* The receiver of the guarantees test is node "b".
Delivered(acts) ==
    LET sends == SelectSeq(acts["b"].local_events, LAMBDA le : le.tip = "LocalMessageSend")
    IN  [i \in 1..Len(sends) |-> sends[i].msg]

CountData(delivered, data) ==
    Cardinality({i \in 1..Len(delivered) : delivered[i].data = data})

\* check(delivered, sent, config) with config.ordered = false: every
\* delivered message has the type of sent[0] and the data of a sent
\* message; a reliable config wants each delivered at least once, a once
\* config at most once.
CheckDelivered(delivered, chk) ==
    /\ \A i \in 1..Len(delivered) :
          /\ delivered[i].tip = chk.sent[1].tip
          /\ \E j \in 1..Len(chk.sent) : chk.sent[j].data = delivered[i].data
    /\ \A j \in 1..Len(chk.sent) :
          LET count == CountData(delivered, chk.sent[j].data)
          IN  /\ (count > 0 \/ ~chk.reliable)
              /\ (count < 2 \/ ~chk.once)

\* check_model: the predicate handed to the checker.
CheckFn(chk, acts) == CheckDelivered(Delivered(acts), chk)

\* ---------------------------------------------------------------- sim.rs
\* The line model_checking_step formats for an event of the violating
\* path: time, src, dest, event type and two texts.
TraceLine(e) ==
    LET ev == e.event
        kind == CASE ev.type = "MessageSend" -> "message_send"
                  [] ev.type = "MessageReceive" -> "message_receive"
                  [] ev.type = "LocalMessageReceive" -> "local_message_receive"
                  [] ev.type = "TimerSet" -> "timer_set"
                  [] ev.type = "TimerFired" -> "timer_fired"
                  [] OTHER -> ""
        timer == ev.type \in {"TimerSet", "TimerFired"}
    IN  [time |-> e.time, src |-> e.src, dest |-> e.dest, event_type |-> kind,
         text1 |-> IF timer THEN ev.name ELSE ev.msg.tip,
         text2 |-> IF timer THEN "" ELSE ev.msg.data]

\* Network::get_state / set_state: a copy of the whole network state.
NetGetState(nw) == nw
NetSetState(nw, state) == state

\* What model_checking_step saves before it dispatches an event.
McSnapshot(s) ==
    [actors_states |-> [n \in DOMAIN s.actors |-> NodeGetState(s.actors[n])],
     net_state |-> NetGetState(s.net),
     event_count |-> s.event_count,
     canceled_events |-> s.canceled_events,
     rand |-> s.rand]

\* What it puts back after the recursive call returned.
McRestore(s, snap) ==
    [s EXCEPT !.canceled_events = snap.canceled_events,
              !.event_count = snap.event_count,
              !.rand = snap.rand,
              !.actors = [n \in DOMAIN s.actors |->
                             NodeSetState(s.actors[n], snap.actors_states[n])],
              !.net = NetSetState(s.net, snap.net_state)]

\* A selection that takes the first event of the frame at every iteration.
McSelectFirst(frame, i) == Append(RemoveAt(frame, 1), frame[1])

\* events.remove(i); events.push(event): the chosen event goes last.
McSelect(frame, i) == Append(RemoveAt(frame, i + 1), frame[i + 1])

\* A loop that only pops what is beyond the old length.
McTruncateKeepOne(frame, mc_events_count) ==
    IF Len(frame) > mc_events_count THEN SubSeq(frame, 1, mc_events_count) ELSE frame

\* while events.len() >= mc_events_count { events.pop(); }
McTruncate(frame, mc_events_count) ==
    IF Len(frame) >= mc_events_count THEN SubSeq(frame, 1, mc_events_count - 1) ELSE frame

\* The event put back at the end of the frame instead of its place.
McReinsertLast(frame, i, event) == Append(frame, event)

\* events.insert(i, event)
McReinsert(frame, i, event) == InsertAt(frame, i + 1, event)

\* A step that puts what the handler emitted in front of the frame.
McFrameAfterStepInFront(selected, emitted) == emitted \o Front(selected)

\* step(Some(events)): events_vec.pop() takes the selected entry off the
\* end of the frame, add_event pushes each emission onto its end.
McFrameAfterStep(selected, emitted) == Front(selected) \o emitted

\* A trace handed out in the order it was recorded.
ReadModelCheckingTraceForward(trace) == trace

\* Simulation::read_model_checking_trace: drain(..).rev()
ReadModelCheckingTrace(trace) == Reverse(trace)

\* sys_time.elapsed() >= Duration::from_secs(limit_seconds)
DeadlineExceeded(elapsed, limit) == elapsed >= limit

\* A checker that reports a violation when it runs out of time.
McTimeoutReject == FALSE

\* The value model_checking_step returns when the deadline is exceeded.
McTimeoutResult == TRUE

\* A loop that stops one event short of the frame.
McLoopDoneEarly(i, mc_events_count) == i >= mc_events_count - 1

\* for i in 0..mc_events_count: the loop is over.
McLoopDone(i, mc_events_count) == i >= mc_events_count

NoEntry == AddEventEntry(0, 0, TimerFired(""), "", "", 0)
NoSnap == [actors_states |-> EmptyMap, net_state |-> NewNetwork, event_count |-> 0,
           canceled_events |-> {}, rand |-> 0]
NoHist ==
    [entry |-> [clock |-> 0, actors |-> EmptyMap, net |-> NewNetwork,
                canceled_events |-> {}, undelivered_events |-> <<>>,
                event_count |-> 0, rand |-> 0],
     entry_events |-> {}, entry_frame |-> <<>>, path |-> <<>>, viol_path |-> <<>>,
     timed_out |-> FALSE, steps |-> 0, steps_at_timeout |-> 0, runs |-> 0,
     evals |-> <<>>]

\* The record of one evaluation of the predicate by the checker: the
\* events selected on the way to it, as <<id, time>>, the length of the
\* frame at that moment, and the value returned.
McEvaluation(path, frame, chk, acts) ==
    [path |-> [k \in 1..Len(path) |-> <<path[k].entry.id, path[k].entry.time>>],
     frame_len |-> Len(frame), result |-> CheckFn(chk, acts)]

\* BinaryHeap::into_vec returns the entries in an arbitrary order.
Perms(S) ==
    {f \in [1..Cardinality(S) -> S] : \A i, j \in 1..Cardinality(S) : f[i] = f[j] => i = j}

\* ---------------------------------------------------------------- sim.rs
\* The head of model_checking_step: with an empty frame the predicate is
\* evaluated and returned, otherwise the loop over the frame starts.
McEnter(frame, stack, chk, acts) ==
    IF Len(frame) = 0
    THEN /\ mc_pc' = "return"
         /\ mc_result' = CheckFn(chk, acts)
         /\ mc_stack' = stack
    ELSE /\ mc_pc' = "loop"
         /\ mc_result' = mc_result
         /\ mc_stack' = Append(stack, [i |-> 0, count |-> Len(frame), event |-> NoEntry,
                                       snap |-> NoSnap, entry_events |-> frame])

\* System::start_model_checking calling Simulation::run_model_checking:
\* the frame is a copy of the pending events.  A test starts the checker
\* once on the system it has built.
StartModelChecking(reliable, once, limit) ==
    /\ mc_pc = "idle"
    /\ mc_hist.runs = 0
    /\ \E frame \in Perms(events) :
          /\ mc_events' = frame
          /\ mc_check' = [mc_check EXCEPT !.reliable = reliable, !.once = once]
          /\ McEnter(frame, <<>>, [mc_check EXCEPT !.reliable = reliable, !.once = once], actors)
          /\ mc_hist' = [entry |-> SimState, entry_events |-> events,
                         entry_frame |-> frame, path |-> <<>>, viol_path |-> <<>>,
                         timed_out |-> FALSE, steps |-> 0, steps_at_timeout |-> 0,
                         runs |-> mc_hist.runs + 1,
                         evals |-> IF Len(frame) = 0
                                   THEN <<McEvaluation(<<>>, frame,
                                             [mc_check EXCEPT !.reliable = reliable,
                                                              !.once = once], actors)>>
                                   ELSE <<>>]
    /\ limit_seconds' = limit
    /\ mc_elapsed' = 0
    /\ UNCHANGED <<simVars, sysVars, mc_trace, dispatch_log, step_result, ops, call>>

\* One pass through the head of the loop body of model_checking_step:
\* the loop ends, or the deadline is found exceeded, or the state is
\* saved, the i-th event is dispatched by step(Some(events)) and the
\* recursive call is entered.
MCIterate ==
    /\ mc_pc = "loop"
    /\ LET top == Last(mc_stack)
       IN  IF McLoopDone(top.i, top.count)
           THEN /\ mc_pc' = "return"
                /\ mc_result' = TRUE
                /\ mc_stack' = Front(mc_stack)
                /\ UNCHANGED <<simVars, mc_events, mc_elapsed, mc_hist>>
           ELSE \E now \in mc_elapsed..MaxElapsed :
                  /\ mc_elapsed' = now
                  /\ IF DeadlineExceeded(now, limit_seconds)
                     THEN /\ mc_pc' = "return"
                          /\ mc_result' = McTimeoutResult
                          /\ mc_stack' = Front(mc_stack)
                          /\ mc_hist' = IF mc_hist.timed_out THEN mc_hist
                                        ELSE [mc_hist EXCEPT !.timed_out = TRUE,
                                                             !.steps_at_timeout = mc_hist.steps]
                          /\ UNCHANGED <<simVars, mc_events>>
                     ELSE LET snap == McSnapshot(SimState)
                              selected == McSelect(mc_events, top.i)
                              e == Last(selected)
                              r == StepEntry(SimState, e)
                              frame == McFrameAfterStep(selected, r.emitted)
                              path == Append(mc_hist.path, [entry |-> e, outcome |-> r.outcome])
                          IN  /\ SetSimState(r.s)
                              /\ mc_events' = frame
                              /\ McEnter(frame,
                                         [mc_stack EXCEPT ![Len(mc_stack)].event = e,
                                                          ![Len(mc_stack)].snap = snap],
                                         mc_check, r.s.actors)
                              /\ mc_hist' = [mc_hist EXCEPT
                                               !.path = path,
                                               !.steps = @ + 1,
                                               !.viol_path =
                                                   IF Len(frame) = 0 /\ ~CheckFn(mc_check, r.s.actors)
                                                   THEN path ELSE @,
                                               !.evals =
                                                   IF Len(frame) = 0
                                                   THEN Append(@, McEvaluation(path, frame,
                                                                   mc_check, r.s.actors))
                                                   ELSE @]
                              /\ UNCHANGED <<events, model_checking_trace>>
    /\ UNCHANGED <<sysVars, mc_check, limit_seconds, mc_trace, dispatch_log, step_result, ops, call>>

\* The rest of the loop body, once the recursive call has returned: the
\* trace line on failure, the frame and the saved state put back, and
\* either the return of false or the next iteration.
MCReturn ==
    /\ mc_pc = "return"
    /\ mc_stack # <<>>
    /\ LET top == Last(mc_stack)
           s == McRestore(SimState, top.snap)
       IN  /\ model_checking_trace' =
                 IF ~mc_result THEN Append(model_checking_trace, TraceLine(top.event))
                               ELSE model_checking_trace
           /\ mc_events' = McReinsert(McTruncate(mc_events, top.count), top.i, top.event)
           /\ SetSimState(s)
           /\ mc_hist' = [mc_hist EXCEPT !.path = Front(@)]
           /\ IF ~mc_result
              THEN /\ mc_stack' = Front(mc_stack)
                   /\ mc_pc' = "return"
              ELSE /\ mc_stack' = [mc_stack EXCEPT ![Len(mc_stack)].i = @ + 1]
                   /\ mc_pc' = "loop"
    /\ UNCHANGED <<events, sysVars, mc_result, mc_check, mc_elapsed, limit_seconds,
                   mc_trace, dispatch_log, step_result, ops, call>>

\* run_model_checking has returned; the facade takes the trace with
\* Simulation::read_model_checking_trace, which drains and reverses it.
MCFinish ==
    /\ mc_pc = "return"
    /\ mc_stack = <<>>
    /\ mc_trace' = ReadModelCheckingTrace(model_checking_trace)
    /\ model_checking_trace' = <<>>
    /\ mc_pc' = "idle"
    /\ mc_elapsed' = 0
    /\ mc_hist' = [NoHist EXCEPT !.viol_path = mc_hist.viol_path, !.runs = mc_hist.runs]
    /\ UNCHANGED <<clock, actors, events, canceled_events, undelivered_events,
                   event_count, rand, net, sysVars, mc_events, mc_stack, mc_result,
                   mc_check, limit_seconds, dispatch_log, step_result, ops, call>>

\* System::with_seed followed by add_node for each node (build_system of
\* the guarantees test): nothing pending, the clock at zero.
Init ==
    /\ clock = 0
    /\ actors = [n \in NodeIds |-> NewNodeActor]
    /\ events = {}
    /\ canceled_events = {}
    /\ undelivered_events = <<>>
    /\ event_count = 0
    /\ rand \in 0..MaxSeed
    /\ model_checking_trace = <<>>
    /\ net = NewNetwork
    /\ node_ids = <<"a", "b">>
    /\ crashed_nodes = {}
    /\ mc_pc = "idle"
    /\ mc_events = <<>>
    /\ mc_stack = <<>>
    /\ mc_result = TRUE
    /\ mc_check = [sent |-> <<>>, reliable |-> FALSE, once |-> FALSE]
    /\ mc_elapsed = 0
    /\ limit_seconds = 0
    /\ mc_trace = <<>>
    /\ mc_hist = NoHist
    /\ dispatch_log = <<>>
    /\ step_result = TRUE
    /\ ops = 0
    /\ call = NoCall

Next ==
    \/ Step
    \/ \E inj \in Injections : SendLocal(JsonMessage(inj[1], "m"), inj[2])
    \/ \E n \in NodeIds : CrashNode(n)

Spec == Init /\ [][Next]_vars

\* The local messages injected while nodes crash and are registered again.
SysInjections == {<<"PING", "a">>, <<"REQ", "a">>, <<"SET", "b">>}

\* A system whose nodes crash, recover, restart and join.
NextSys ==
    \/ Step
    \/ \E inj \in SysInjections : SendLocal(JsonMessage(inj[1], "m"), inj[2])
    \/ \E n \in NodeIds : CrashNode(n)
    \/ \E n \in Addresses : AddNode(n)

SpecSys == Init /\ [][NextSys]_vars

\* The local messages injected while the network is reconfigured: a
\* message to the peer, a request that is acknowledged and retried, and a
\* broadcast to the peer and to address "c".
NetInjections == {<<"PING", "a">>, <<"REQ", "a">>, <<"CAST", "a">>}

\* The rates the tests set: one half and one.
Rates == {<<1, 2>>, <<1, 1>>}

\* The partitions made: the two nodes apart, and the two nodes together
\* against address "c".
Partitions == {<<{"a"}, {"b"}>>, <<{"a", "b"}, {"c"}>>}

\* A system whose network is reconfigured while messages travel.
NextNet ==
    \/ Step
    \/ \E inj \in NetInjections : SendLocal(JsonMessage(inj[1], "m"), inj[2])
    \/ CrashNode("a")
    \/ \E rate \in Rates : SetDropRate(rate)
    \/ SetDuplRate(<<1, 1>>)
    \/ DropIncoming("b")
    \/ DropOutgoing("a")
    \/ DisableLink("a", "b")
    \/ DisableAllLinks
    \/ \E p \in Partitions : MakePartition(p[1], p[2])
    \/ ResetNetwork

SpecNet == Init /\ [][NextNet]_vars

\* The local messages injected while a test collects mailboxes: two
\* notes for the node's own mailbox, a timer whose firing is reported
\* locally, a ping the peer acknowledges locally, a PING the peer reports
\* locally, and a broadcast that also goes to address "c".
MailInjections ==
    {<<"NOTE", "a">>, <<"SET", "a">>, <<"ping", "a">>, <<"PING", "b">>, <<"CAST", "a">>}

\* A system a test steps, crashes and collects local messages from.
NextMail ==
    \/ Step
    \/ \E inj \in MailInjections : SendLocal(JsonMessage(inj[1], "m"), inj[2])
    \/ \E n \in NodeIds : CrashNode(n)
    \/ \E n \in NodeIds : CheckMailbox(n)
    \/ \E n \in NodeIds : StepUntilLocalMessage(n)
    \/ \E n \in NodeIds, max_steps \in 0..MaxStepCap :
          StepUntilLocalMessageMaxSteps(n, max_steps)

SpecMail == Init /\ [][NextMail]_vars

\* The local messages that make node "a" work with its timers: "t" set
\* once, set twice in one handler, and canceled; "p", which sets itself
\* again when it fires; "x", which cancels its own name when it fires.
TimerInjections ==
    {<<"SET", "a">>, <<"SET2", "a">>, <<"CANCEL", "a">>, <<"SETP", "a">>, <<"SETX", "a">>}

\* A system whose node "a" sets and cancels timers while it is stepped.
NextTimer ==
    \/ Step
    \/ \E inj \in TimerInjections : SendLocal(JsonMessage(inj[1], "m"), inj[2])

SpecTimer == Init /\ [][NextTimer]_vars

\* The local messages injected into a system that is run for a while: a
\* message for the peer, a timer, and two messages that also go to
\* addresses nobody registered.
RunInjections == {<<"PING", "a">>, <<"SET", "a">>, <<"CAST", "a">>, <<"PING", "c">>}

\* The durations, in seconds, a test runs the system for.
Durations == {Ticks(d) : d \in 0..MaxDuration}

\* A system that is stepped, run for a duration, and asked for the number
\* of undelivered events.
NextRun ==
    \/ Step
    \/ \E inj \in RunInjections : SendLocal(JsonMessage(inj[1], "m"), inj[2])
    \/ \E d \in Durations : StepForDuration(d)
    \/ CountUndeliveredEvents

SpecRun == Init /\ [][NextRun]_vars

\* ------------------------------------------------ test/guarantees main.rs
\* The set-ups the checker is started from: the duplication rate of the
\* network and the local messages injected, as <<tip, destination>>.
McScenarios ==
    {[dupl |-> <<0, 1>>, inject |-> <<>>],
     [dupl |-> <<0, 1>>, inject |-> <<<<"REQ", "a">>>>],
     [dupl |-> <<0, 1>>, inject |-> <<<<"REQ", "b">>>>],
     [dupl |-> <<0, 1>>, inject |-> <<<<"SET", "a">>>>],
     [dupl |-> <<0, 1>>, inject |-> <<<<"PING", "a">>, <<"SET", "a">>>>],
     [dupl |-> <<1, 1>>, inject |-> <<<<"PING", "a">>>>]}

\* build_system, set_dupl_rate and the send_local calls of a test.
InitMC ==
    \E sc \in McScenarios :
       /\ clock = 0
       /\ actors = [n \in NodeIds |-> NewNodeActor]
       /\ events = {AddEventEntry(i - 1, 0, LocalMessageReceive(JsonMessage(sc.inject[i][1], "m")),
                                  "local@" \o sc.inject[i][2], sc.inject[i][2], 0)
                       : i \in 1..Len(sc.inject)}
       /\ canceled_events = {}
       /\ undelivered_events = <<>>
       /\ event_count = Len(sc.inject)
       /\ rand \in 0..MaxSeed
       /\ model_checking_trace = <<>>
       /\ net = [NewNetwork EXCEPT !.dupl_rate = sc.dupl]
       /\ node_ids = <<"a", "b">>
       /\ crashed_nodes = {}
       /\ mc_pc = "idle"
       /\ mc_events = <<>>
       /\ mc_stack = <<>>
       /\ mc_result = TRUE
       /\ mc_check = [sent |-> [i \in 1..Len(sc.inject) |-> JsonMessage(sc.inject[i][1], "m")],
                      reliable |-> FALSE, once |-> FALSE]
       /\ mc_elapsed = 0
       /\ limit_seconds = 0
       /\ mc_trace = <<>>
       /\ mc_hist = NoHist
       /\ dispatch_log = <<>>
       /\ step_result = TRUE
       /\ ops = 0
       /\ call = NoCall

NextMC ==
    \/ Step
    \/ \E reliable, once \in BOOLEAN, limit \in {0, MaxElapsed} :
          StartModelChecking(reliable, once, limit)
    \/ MCIterate
    \/ MCReturn
    \/ MCFinish

SpecMC == InitMC /\ [][NextMC]_vars

\* ================================================================ claims
\* The checker has returned to the facade: run_model_checking is over and
\* the trace has not been read yet.
McReturned == mc_pc = "return" /\ mc_stack = <<>>

\* (time, id) of x is at most (time, id) of y.
TimeIdLeq(x, y) == x.time < y.time \/ (x.time = y.time /\ x.id <= y.id)

\* C1: every step() of the facade on a non-empty queue removes the pending
\* entry that is least in (time, id): the popped entry was pending, no
\* entry pending at that moment was smaller, and it is pending no more.
C1_PopsLeastTimeId ==
    \A i \in 1..Len(dispatch_log) :
       LET d == dispatch_log[i]
       IN  /\ d.entry \in d.pending
           /\ \A f \in d.pending : TimeIdLeq(d.entry, f)
           /\ d.entry \notin events

\* A pop that broke a tie on the id, and a pop of a younger entry ahead of
\* an older one with a later time.
C1_Witness ==
    /\ \E i \in 1..Len(dispatch_log) :
          \E f \in dispatch_log[i].pending :
             f.id # dispatch_log[i].entry.id /\ f.time = dispatch_log[i].entry.time
    /\ \E i \in 1..Len(dispatch_log) :
          \E f \in dispatch_log[i].pending :
             f.id < dispatch_log[i].entry.id /\ f.time > dispatch_log[i].entry.time

\* What a step that popped a canceled entry leaves behind: the id leaves
\* the cancellation set, the entry leaves the queue, the step returns true,
\* and the clock, the actors, the network, the undelivered log, the event
\* counter and the generator are untouched.
CanceledPopEffect(d) ==
    /\ d.outcome = "canceled"
    /\ clock' = clock
    /\ actors' = actors
    /\ net' = net
    /\ undelivered_events' = undelivered_events
    /\ event_count' = event_count
    /\ rand' = rand
    /\ step_result' = TRUE
    /\ events' = events \ {d.entry}
    /\ canceled_events' = canceled_events \ {d.entry.id}

\* C3: an entry popped while its id is in the cancellation set reaches no
\* handler and not the undelivered log, the step returns true and the
\* clock stays; an entry is handed to a handler exactly when it is not
\* canceled, its destination is registered and the destination is active.
C3_LazyCancellation ==
    [][dispatch_log' # dispatch_log =>
         LET d == Last(dispatch_log')
         IN  /\ d.canceled => CanceledPopEffect(d)
             /\ d.outcome = "handled" <=> (~d.canceled /\ d.registered /\ d.active)
             /\ d.outcome = "undelivered" <=> (~d.canceled /\ ~d.registered)]_vars

\* A canceled entry has been popped, and so has an entry for an address
\* nobody registered.
C3_Witness ==
    /\ \E i \in 1..Len(dispatch_log) : dispatch_log[i].canceled
    /\ \E i \in 1..Len(dispatch_log) :
          ~dispatch_log[i].canceled /\ ~dispatch_log[i].registered

\* C3 as stated: the entries handed to handlers are the popped entries
\* minus the canceled ones.
C3_AsStated ==
    [][dispatch_log' # dispatch_log =>
         LET d == Last(dispatch_log')
         IN  /\ d.canceled => CanceledPopEffect(d)
             /\ d.outcome = "handled" <=> ~d.canceled]_vars

\* Some selection order of the frame, dispatched from s until nothing is
\* left, ends in a state where the predicate is false.
RECURSIVE BadLeafReachable(_, _, _)
BadLeafReachable(chk, s, frame) ==
    IF frame = <<>>
    THEN ~CheckFn(chk, s.actors)
    ELSE \E i \in 1..Len(frame) :
            LET r == StepEntry(s, frame[i])
            IN  BadLeafReachable(chk, r.s, RemoveAt(frame, i) \o r.emitted)

\* Some selection order passes through a state, final or not, where the
\* predicate is false.
RECURSIVE BadStateReachable(_, _, _)
BadStateReachable(chk, s, frame) ==
    \/ ~CheckFn(chk, s.actors)
    \/ \E i \in 1..Len(frame) :
          LET r == StepEntry(s, frame[i])
          IN  BadStateReachable(chk, r.s, RemoveAt(frame, i) \o r.emitted)

\* C4: with the deadline never found exceeded, the checker returns false
\* exactly when some selection order of the pending events, dispatched
\* until no event is left, ends in a state where check is false.
C4_FalseIffBadFinalState ==
    (McReturned /\ ~mc_hist.timed_out) =>
        (mc_result = FALSE <=>
            BadLeafReachable(mc_check, mc_hist.entry, mc_hist.entry_frame))

\* A run that dispatched events and found a violation although some
\* selection order ends well, and the run that proves it.
C4_Witness ==
    /\ McReturned
    /\ ~mc_hist.timed_out
    /\ mc_result = FALSE
    /\ mc_hist.steps > Len(mc_hist.viol_path)

\* C4 as stated: any state on the way counts, final or not.
C4_AsStated ==
    (McReturned /\ ~mc_hist.timed_out) =>
        (mc_result = FALSE <=>
            BadStateReachable(mc_check, mc_hist.entry, mc_hist.entry_frame))

\* C5: when run_model_checking has returned, with either result, every
\* node wrapper (counters, timer table, mailbox, local-event log, crashed
\* flag, node state), the generator, the event counter and the
\* cancellation set are what they were immediately before the call.
C5_RestoreRoundTrip ==
    McReturned =>
        /\ actors = mc_hist.entry.actors
        /\ rand = mc_hist.entry.rand
        /\ event_count = mc_hist.entry.event_count
        /\ canceled_events = mc_hist.entry.canceled_events

\* A run that handed events to handlers, found a violation and unwound
\* has returned.
C5_Witness ==
    /\ McReturned
    /\ mc_hist.steps >= 3
    /\ \E i \in 1..Len(mc_hist.viol_path) : mc_hist.viol_path[i].outcome = "handled"

\* C6: during model checking the committed queue is never touched, so it
\* holds after the run what it held before; what a handler emits is
\* appended to the frame of the recursive call, behind the events that
\* were left; and at every loop iteration the frame is the one the
\* invocation was entered with, free of what earlier branches emitted.
C6_FrameNotQueue ==
    /\ mc_pc # "idle" => events = mc_hist.entry_events
    /\ mc_pc = "loop" => mc_events = Last(mc_stack).entry_events
    /\ \A k \in 2..Len(mc_stack) :
          LET parent == mc_stack[k - 1]
              child == mc_stack[k].entry_events
          IN  /\ Len(child) >= parent.count - 1
              /\ SubSeq(child, 1, parent.count - 1)
                    = RemoveAt(parent.entry_events, parent.i + 1)
              /\ \A j \in parent.count..Len(child) :
                    /\ child[j].id >= parent.snap.event_count
                    /\ child[j] \notin events

\* A second branch is about to be explored after a first one whose event
\* was handed to a node and made it emit.
C6_Witness ==
    /\ mc_pc = "loop"
    /\ Last(mc_stack).i >= 1
    /\ Last(mc_stack).entry_events[Last(mc_stack).i].event.type = "LocalMessageReceive"
    /\ mc_hist.steps >= 2

TraceLines(path) == [i \in 1..Len(path) |-> TraceLine(path[i].entry)]

\* C7: when the checker returned false the trace the facade reads has one
\* line for every event selected on the violating path, in selection
\* order, an event dropped as canceled included; when it returned true
\* the trace is empty.
C7_TraceIsSelectedPath ==
    (mc_pc = "idle" /\ mc_hist.runs > 0) =>
        mc_trace = IF mc_result THEN <<>> ELSE TraceLines(mc_hist.viol_path)

\* A violating run whose path holds several handled events has been read.
C7_Witness ==
    /\ mc_pc = "idle"
    /\ mc_hist.runs > 0
    /\ ~mc_result
    /\ Len(mc_trace) >= 3

\* C7 as stated: the lines are those of the events dispatched, which an
\* entry dropped as canceled is not.
C7_AsStated ==
    (mc_pc = "idle" /\ mc_hist.runs > 0) =>
        mc_trace = IF mc_result THEN <<>>
                   ELSE TraceLines(SelectSeq(mc_hist.viol_path,
                                             LAMBDA d : d.outcome # "canceled"))

\* The first violating selection order in depth-first order: at every
\* level the events of the frame are tried by increasing index.
RECURSIVE FirstBad(_, _, _)
RECURSIVE FirstBadFrom(_, _, _, _)
FirstBad(chk, s, frame) ==
    IF frame = <<>>
    THEN [found |-> ~CheckFn(chk, s.actors), path |-> <<>>]
    ELSE FirstBadFrom(chk, s, frame, 1)

FirstBadFrom(chk, s, frame, i) ==
    IF i > Len(frame)
    THEN [found |-> FALSE, path |-> <<>>]
    ELSE LET r == StepEntry(s, frame[i])
             sub == FirstBad(chk, r.s, RemoveAt(frame, i) \o r.emitted)
         IN  IF sub.found
             THEN [found |-> TRUE, path |-> <<TraceLine(frame[i])>> \o sub.path]
             ELSE FirstBadFrom(chk, s, frame, i + 1)

\* Some violating selection order selects at most n events.
RECURSIVE BadLeafWithin(_, _, _, _)
BadLeafWithin(chk, s, frame, n) ==
    IF frame = <<>>
    THEN n >= 0 /\ ~CheckFn(chk, s.actors)
    ELSE /\ n > 0
         /\ \E i \in 1..Len(frame) :
               LET r == StepEntry(s, frame[i])
               IN  BadLeafWithin(chk, r.s, RemoveAt(frame, i) \o r.emitted, n - 1)

\* C8: the violating trace is that of the first violating selection order
\* in depth-first order, the events of each frame tried by increasing
\* index.
C8_TraceIsFirstInDfsOrder ==
    (McReturned /\ ~mc_result) =>
        Reverse(model_checking_trace)
            = FirstBad(mc_check, mc_hist.entry, mc_hist.entry_frame).path

\* A violation found after branches that ended well.
C8_Witness ==
    /\ McReturned
    /\ ~mc_result
    /\ Len(model_checking_trace) >= 3
    /\ mc_hist.steps > Len(model_checking_trace)

\* C8 as stated: no violating selection order is shorter than the trace.
C8_AsStated ==
    (McReturned /\ ~mc_result) =>
        ~BadLeafWithin(mc_check, mc_hist.entry, mc_hist.entry_frame,
                       Len(model_checking_trace) - 1)

\* C9: once the deadline has been found exceeded no further event is
\* dispatched, the invocation that found it returns true, and so does the
\* whole run.
C9_TimeoutAccepts ==
    mc_hist.timed_out =>
        /\ mc_hist.steps = mc_hist.steps_at_timeout
        /\ mc_pc = "return" => mc_result = TRUE

\* The deadline was found exceeded after events had been dispatched, and
\* the run has returned.
C9_Witness ==
    /\ McReturned
    /\ mc_hist.timed_out
    /\ mc_hist.steps_at_timeout >= 2

\* C10 as stated: of two pending TimerFired events for the same timer of
\* the same node, all but one are canceled.
C10_EarlierTimerCanceled ==
    \A e, f \in events :
       (/\ e.event.type = "TimerFired"
        /\ f.event.type = "TimerFired"
        /\ e.dest = f.dest
        /\ e.event.name = f.event.name
        /\ e.id < f.id)
       => e.id \in canceled_events

\* The timer actions the handler of a dispatched entry hands back.
HandlerTimerActions(e) ==
    CASE e.event.type = "LocalMessageReceive" ->
            NodeOnLocalMessage(e.dest, 0, e.event.msg).timer_actions
      [] e.event.type = "MessageReceive" ->
            NodeOnMessage(e.dest, 0, e.event.msg, e.event.src).timer_actions
      [] e.event.type = "TimerFired" ->
            NodeOnTimer(e.dest, 0, e.event.name).timer_actions
      [] OTHER -> <<>>

\* The handler run for log entry d called cancel_timer(name).
CallsCancelTimer(d, name) ==
    /\ d.outcome = "handled"
    /\ d.entry.dest \in NodeIds
    /\ \E i \in 1..Len(HandlerTimerActions(d.entry)) :
          /\ HandlerTimerActions(d.entry)[i][1] = name
          /\ HandlerTimerActions(d.entry)[i][2] < 0

\* C11 as stated: a timer event is handed to on_timer at most once, at
\* the node that set it, and never if that node called cancel_timer for
\* its name while the event was pending.
C11_CanceledTimerNeverFires ==
    \A j, k \in 1..Len(dispatch_log) :
       LET c == dispatch_log[j]
           f == dispatch_log[k]
       IN  /\ (j # k /\ f.entry.event.type = "TimerFired") => f.entry.id # c.entry.id
           /\ (/\ j < k
               /\ f.entry.event.type = "TimerFired"
               /\ f.entry.dest = c.entry.dest
               /\ f.entry \in c.pending
               /\ CallsCancelTimer(c, f.entry.event.name))
              => f.outcome # "handled"

\* The timer names of the node programs.
TimerNames == {"t", "r", "p", "x"}

\* The context step() would hand to node n in the current state.
CtxOf(n) == NewContext(n, clock, rand, event_count, actors[n])

\* What timer calls leave behind: the timer table, the ids canceled and
\* the events scheduled.
TimerView(h) ==
    [timers |-> h.w.timers, canceled |-> Range(h.canceled_events), events |-> h.events]

\* C12: in every reachable state of every node, cancel_timer(a) twice
\* leaves the timer table and the cancellations that cancel_timer(a) once
\* leaves, and cancel_timer(a) followed by set_timer(b, d) with b # a
\* leaves the timer table, cancellations and scheduled timer events that
\* set_timer(b, d) followed by cancel_timer(a) leaves.
C12_CancelIdempotentCommutes ==
    \A n \in DOMAIN actors, a \in TimerNames, b \in TimerNames, d \in {Ticks(1), Ticks(2)} :
       LET h == CtxOf(n)
       IN  /\ TimerView(CtxCancelTimer(CtxCancelTimer(h, a), a))
                = TimerView(CtxCancelTimer(h, a))
           /\ a # b =>
                TimerView(CtxSetTimer(CtxCancelTimer(h, a), b, d))
                   = TimerView(CtxCancelTimer(CtxSetTimer(h, b, d), a))

\* A node holds a pending timer in its table after one of its handlers
\* has called cancel_timer.
C12_Witness ==
    \E n \in DOMAIN actors :
       /\ DOMAIN actors[n].timers # {}
       /\ \E i \in 1..Len(dispatch_log) :
             /\ dispatch_log[i].entry.dest = n
             /\ \E a \in TimerNames : CallsCancelTimer(dispatch_log[i], a)

\* The id a facade call was made on.
CallId(c) == CHOOSE id \in c.arg[1] : TRUE

Occurrences(ids, id) == Cardinality({i \in 1..Len(ids) : ids[i] = id})

\* C14: add_node on a registered id replaces the wrapper by a fresh one;
\* a crashed id leaves the crashed sets of the facade and of the network,
\* otherwise both sets stay; the id list and the number of nodes stay and
\* the id is listed exactly once.
C14_AddNodeOnKnownId ==
    [][(ops' # ops /\ call'.op = "add_node" /\ CallId(call') \in DOMAIN actors) =>
         LET id == CallId(call')
         IN  /\ actors' = [actors EXCEPT ![id] = NewNodeActor]
             /\ crashed_nodes' = crashed_nodes \ {id}
             /\ net'.crashed_nodes = net.crashed_nodes \ {id}
             /\ id \notin crashed_nodes =>
                   (crashed_nodes' = crashed_nodes /\ net' = net)
             /\ node_ids' = node_ids
             /\ Occurrences(node_ids', id) = 1
             /\ Cardinality(DOMAIN actors') = Cardinality(DOMAIN actors)]_vars

\* A crashed node has been recovered by add_node.
C14_Witness ==
    /\ call.op = "add_node"
    /\ CallId(call) \in call.before.crashed_nodes
    /\ CallId(call) \in call.before.net.crashed_nodes
    /\ CallId(call) \notin crashed_nodes
    /\ actors[CallId(call)].status = Healthy

\* Log entry d is a MessageSend the network actor handled.
NetHandledSend(d) ==
    /\ d.entry.dest = NetId
    /\ d.entry.event.type = "MessageSend"
    /\ ~d.canceled

\* The MessageSend entries the network actor handled, in order.
NetSends == SelectSeq(dispatch_log, NetHandledSend)

RECURSIVE PayloadBytes(_)
PayloadBytes(sends) ==
    IF sends = <<>> THEN 0
    ELSE Len(Head(sends).entry.event.msg.data) + PayloadBytes(Tail(sends))

\* C15: the message counter of the network is the number of MessageSend
\* events its handler was given, delivered or not, and the traffic
\* counter is the sum of the payload lengths of those events.
C15_NetworkCounters ==
    /\ net.message_count = Len(NetSends)
    /\ net.traffic = PayloadBytes(NetSends)

\* The network has counted a send it delivered and a send it did not.
C15_Witness ==
    /\ net.message_count >= 2
    /\ \E i \in 1..Len(NetSends) : NetSends[i].emitted = <<>>
    /\ \E i \in 1..Len(NetSends) : NetSends[i].emitted # <<>>

\* A gate of network nw is closed for a message from src to dest.
GateClosed(nw, src, dest) ==
    \/ nw.drop_rate = <<1, 1>>
    \/ src \in nw.drop_outgoing
    \/ dest \in nw.drop_incoming
    \/ <<src, dest>> \in nw.disabled_links

\* C16: a MessageSend handled by the network while the drop rate is one,
\* or its source drops outgoing, or its destination drops incoming, or
\* its link is disabled, emits nothing; and disable_all_links disables
\* the link between any two distinct listed nodes, in both directions.
C16_ClosedGateDrops ==
    [][/\ dispatch_log' # dispatch_log =>
            LET d == Last(dispatch_log')
            IN  (NetHandledSend(d) /\ GateClosed(net, d.entry.event.src, d.entry.event.dest))
                   => (d.emitted = <<>> /\ events' = events \ {d.entry})
       /\ (ops' # ops /\ call'.op = "disable_all_links") =>
            /\ \A i, j \in 1..Len(node_ids) :
                  node_ids[i] # node_ids[j] =>
                     <<node_ids[i], node_ids[j]>> \in net'.disabled_links
            /\ net' = [net EXCEPT !.disabled_links = net'.disabled_links]]_vars

\* After disable_all_links a node sent to its peer and nothing was
\* delivered.
C16_Witness ==
    /\ call.op = "disable_all_links"
    /\ call.before.net.message_count = 0
    /\ \E i \in 1..Len(NetSends) :
          /\ NetSends[i].emitted = <<>>
          /\ NetSends[i].entry.event.dest \in NodeIds

C18_PartitionCutsBothWays ==
    [][/\ (ops' # ops /\ call'.op = "make_partition") =>
            LET g1 == call'.arg[1]
                g2 == call'.arg[2]
            IN  net' = [net EXCEPT !.disabled_links =
                           @ \cup {l \in Addresses \X Addresses :
                                      \/ (l[1] \in g1 /\ l[2] \in g2)
                                      \/ (l[1] \in g2 /\ l[2] \in g1)}]
       /\ dispatch_log' # dispatch_log =>
            LET d == Last(dispatch_log')
                ev == d.entry.event
            IN  NetHandledSend(d) =>
                  /\ net'.message_count = net.message_count + 1
                  /\ <<ev.src, ev.dest>> \in net.disabled_links => d.emitted = <<>>
                  /\ (/\ ev.src \notin net.crashed_nodes
                      /\ net.drop_rate = <<0, 1>>
                      /\ ~GateClosed(net, ev.src, ev.dest))
                     => (/\ d.emitted # <<>>
                         /\ \A i \in 1..Len(d.emitted) :
                               d.emitted[i].event.type = "MessageReceive")]_vars

\* After a partition that keeps the two nodes together and cuts off "c",
\* a broadcast was delivered inside the group and dropped across, and the
\* network counted both sends.
C18_Witness ==
    /\ call.op = "make_partition"
    /\ call.before.net.message_count = 0
    /\ net.message_count = 2
    /\ \E i \in 1..Len(NetSends) :
          /\ NetSends[i].emitted = <<>>
          /\ <<NetSends[i].entry.event.src, NetSends[i].entry.event.dest>> \in net.disabled_links
    /\ \E i \in 1..Len(NetSends) :
          /\ NetSends[i].emitted # <<>>
          /\ {NetSends[i].entry.event.src, NetSends[i].entry.event.dest} \subseteq call.arg[1]

\* C19: reset_network empties the drop-incoming set, the drop-outgoing set
\* and the disabled links and changes nothing else, in the network or
\* elsewhere; a second reset_network changes nothing.
C19_ResetNetworkFrame ==
    [][(ops' # ops /\ call'.op = "reset_network") =>
         /\ net' = [net EXCEPT !.drop_incoming = {}, !.drop_outgoing = {},
                               !.disabled_links = {}]
         /\ NetResetNetwork(net') = net'
         /\ UNCHANGED <<clock, actors, events, canceled_events, undelivered_events,
                        event_count, rand, sysVars>>]_vars

\* A reset found a network with overrides, or with a crashed node.
C19_Witness ==
    /\ call.op = "reset_network"
    /\ \/ call.before.net.disabled_links # {} /\ net.disabled_links = {}
       \/ call.before.net.drop_incoming # {} /\ net.drop_incoming = {}
       \/ call.before.net.drop_outgoing # {} /\ net.drop_outgoing = {}

\* The entries of a dispatch that carry a message a node sent: the
\* MessageSend entries for the network and the MessageReceive entries a
\* node addressed to itself.
SentEntries(d) ==
    SelectSeq(d.emitted, LAMBDA x : x.event.type \in {"MessageSend", "MessageReceive"})

\* The entry x is a message node n delivers to itself.
SelfReceive(x, n) ==
    /\ x.event.type = "MessageReceive"
    /\ x.event.src = n
    /\ x.event.dest = n
    /\ x.dest = n

\* C20: a message a node sends to its own id never goes to the network:
\* the handler emits a MessageReceive for the node itself, due at the
\* clock of the send, the network and its counters stay as they were,
\* the sender's sent counter counts it like any other send, and when that
\* entry is dispatched the clock still reads the time of the send and the
\* node's received counter goes up by one.
C20_SelfSendBypassesNetwork ==
    [][dispatch_log' # dispatch_log =>
         LET d == Last(dispatch_log')
             n == d.entry.dest
         IN  (d.outcome = "handled" /\ n # NetId) =>
                /\ \A i \in 1..Len(d.emitted) :
                      LET x == d.emitted[i]
                      IN  /\ x.event.type = "MessageSend" =>
                                x.dest = NetId /\ x.event.src = n /\ x.event.dest # n
                          /\ x.event.type = "MessageReceive" =>
                                SelfReceive(x, n) /\ x.time = clock'
                /\ net' = net
                /\ actors'[n].sent_message_count
                      = actors[n].sent_message_count + Len(SentEntries(d))
                /\ SelfReceive(d.entry, n) =>
                      /\ actors'[n].received_message_count
                            = actors[n].received_message_count + 1
                      /\ clock' = clock
                      /\ \E j \in 1..Len(dispatch_log) :
                            /\ dispatch_log[j].entry.dest = n
                            /\ dispatch_log[j].entry.time = clock'
                            /\ \E k \in 1..Len(dispatch_log[j].emitted) :
                                  dispatch_log[j].emitted[k] = d.entry]_vars

\* A node sent a message to itself and then received it, and the network
\* has counted nothing.
C20_Witness ==
    /\ \E i, j \in 1..Len(dispatch_log) :
          /\ i < j
          /\ dispatch_log[i].outcome = "handled"
          /\ dispatch_log[i].entry.event.type = "LocalMessageReceive"
          /\ dispatch_log[i].entry.event.msg.tip = "SELF"
          /\ dispatch_log[j].outcome = "handled"
          /\ SelfReceive(dispatch_log[j].entry, dispatch_log[i].entry.dest)
          /\ dispatch_log[j].entry \in Range(dispatch_log[i].emitted)
    /\ actors["a"].sent_message_count = 1
    /\ actors["a"].received_message_count = 1
    /\ net.message_count = 0

\* The dispatch that emitted entry x (entry ids are never reused).
ProducerOf(x) ==
    CHOOSE k \in 1..Len(dispatch_log) : x \in Range(dispatch_log[k].emitted)

\* The dispatch at position i of the log ran on_message of a node for a
\* message another node sent.
ReceivedFromPeer(i) ==
    /\ dispatch_log[i].outcome = "handled"
    /\ dispatch_log[i].entry.event.type = "MessageReceive"
    /\ dispatch_log[i].entry.event.src # dispatch_log[i].entry.event.dest

\* The id of the MessageSend entry whose handling by the network emitted
\* the MessageReceive dispatched at position i; ids grow in send order.
SendIdOf(i) == dispatch_log[ProducerOf(dispatch_log[i].entry)].entry.id

\* C21: with equal minimum and maximum delay, no duplication and no
\* drops, two messages of one sender that one receiver was handed were
\* handed over in the order in which they were sent, whatever else was
\* dispatched in between.
C21_FifoUnderEqualDelays ==
    (/\ net.min_delay = net.max_delay
     /\ net.dupl_rate = <<0, 1>>
     /\ net.drop_rate = <<0, 1>>) =>
        \A i, j \in 1..Len(dispatch_log) :
            (/\ i < j
             /\ ReceivedFromPeer(i)
             /\ ReceivedFromPeer(j)
             /\ dispatch_log[i].entry.event.src = dispatch_log[j].entry.event.src
             /\ dispatch_log[i].entry.event.dest = dispatch_log[j].entry.event.dest)
                => SendIdOf(i) < SendIdOf(j)

\* One receiver was handed two messages of one sender, a PING and a REQ,
\* and a timer or a message of the other direction was dispatched too.
C21_Witness ==
    /\ \E i, j \in 1..Len(dispatch_log) :
          /\ i < j
          /\ ReceivedFromPeer(i)
          /\ ReceivedFromPeer(j)
          /\ dispatch_log[i].entry.event.src = dispatch_log[j].entry.event.src
          /\ dispatch_log[i].entry.event.dest = dispatch_log[j].entry.event.dest
          /\ dispatch_log[i].entry.event.msg.tip # dispatch_log[j].entry.event.msg.tip
    /\ \E k \in 1..Len(dispatch_log) :
          \/ dispatch_log[k].entry.event.type = "TimerFired"
          \/ /\ ReceivedFromPeer(k)
             /\ dispatch_log[k].entry.event.msg.tip = "ACK"

\* C22: the clock never decreases; a step() that dispatches a non-canceled
\* entry sets it to the time of that entry, whether or not an active actor
\* is registered at the destination, and no other step and no facade call
\* changes it.
C22_ClockMonotone ==
    [][/\ clock' >= clock
       /\ dispatch_log' # dispatch_log =>
             LET d == Last(dispatch_log')
             IN  clock' = IF d.canceled THEN clock ELSE d.entry.time
       /\ ops' # ops => clock' = clock]_vars

\* What one invocation of the handler of node n for entry e shows in the
\* wrapper: a received message is counted, a local message is logged, and
\* the timer that fired has left the timer table.
HandlerRanOnce(before, after, e) ==
    /\ e.event.type = "MessageReceive" =>
          after.received_message_count = before.received_message_count + 1
    /\ e.event.type # "MessageReceive" =>
          after.received_message_count = before.received_message_count
    /\ e.event.type = "LocalMessageReceive" =>
          /\ Len(after.local_events) >= Len(before.local_events) + 1
          /\ after.local_events[Len(before.local_events) + 1] =
                [time |-> e.time, msg |-> e.event.msg, tip |-> "LocalMessageReceive"]
          /\ \A k \in (Len(before.local_events) + 2)..Len(after.local_events) :
                after.local_events[k].tip # "LocalMessageReceive"
    /\ e.event.type # "LocalMessageReceive" =>
          \A k \in (Len(before.local_events) + 1)..Len(after.local_events) :
                after.local_events[k].tip # "LocalMessageReceive"
    /\ (e.event.type = "TimerFired" /\ e.event.name = "t") =>
          after.local_mailbox = Append(before.local_mailbox, JsonMessage("FIRED", "t"))

\* C23: a step() that pops a non-canceled entry appends it to the
\* undelivered-events log and runs nothing when no actor is registered at
\* the destination; drops it without handler, emission, cancellation or
\* log entry when the destination is inactive; and runs the handler of
\* the destination once when it is registered and active.  (Stated of
\* step() called on its own: a stepping loop of the facade pops several
\* entries in one call.)
C23_DispatchByDestination ==
    [][(dispatch_log' # dispatch_log /\ ops' = ops) =>
         LET d == Last(dispatch_log')
             e == d.entry
         IN  ~d.canceled =>
               /\ ~d.registered =>
                     /\ d.outcome = "undelivered"
                     /\ undelivered_events' = Append(undelivered_events, e)
                     /\ d.emitted = <<>>
                     /\ events' = events \ {e}
                     /\ UNCHANGED <<actors, net, canceled_events, event_count, rand>>
               /\ (d.registered /\ ~d.active) =>
                     /\ d.outcome = "inactive"
                     /\ d.emitted = <<>>
                     /\ events' = events \ {e}
                     /\ UNCHANGED <<actors, net, canceled_events, undelivered_events,
                                    event_count, rand>>
               /\ (d.registered /\ d.active) =>
                     /\ d.outcome = "handled"
                     /\ undelivered_events' = undelivered_events
                     /\ e.dest # NetId =>
                           /\ HandlerRanOnce(actors[e.dest], actors'[e.dest], e)
                           /\ \A n \in DOMAIN actors \ {e.dest} : actors'[n] = actors[n]
                     /\ (e.dest = NetId /\ e.event.type = "MessageSend") =>
                           net'.message_count = net.message_count + 1]_vars

\* One behaviour has dispatched an entry for an address nobody registered,
\* an entry for a crashed node, and entries that nodes and the network
\* handled.
C23_Witness ==
    /\ Len(undelivered_events) = 1
    /\ \E i \in 1..Len(dispatch_log) : dispatch_log[i].outcome = "undelivered"
    /\ \E i \in 1..Len(dispatch_log) :
          dispatch_log[i].outcome = "inactive" /\ ~dispatch_log[i].canceled
    /\ \E i \in 1..Len(dispatch_log) :
          dispatch_log[i].outcome = "handled" /\ dispatch_log[i].entry.dest \in NodeIds
    /\ \E i \in 1..Len(dispatch_log) :
          dispatch_log[i].outcome = "handled" /\ dispatch_log[i].entry.dest = NetId

\* In the dispatch history log, two entries one handler run emitted for
\* the same time were dispatched in the order of their emission: the
\* later emission was never dispatched before the earlier one.
EmissionOrderKept(log) ==
    \A k, q \in 1..Len(log) :
       \A j \in 1..Len(log[k].emitted) :
          log[q].entry = log[k].emitted[j] =>
             \A i \in 1..(j - 1) :
                log[k].emitted[i].time = log[k].emitted[j].time =>
                   \E p \in 1..(q - 1) : log[p].entry = log[k].emitted[i]

\* C24: the events one handler run emitted are in the queue after the
\* step, none of them was there before, each has the handling actor as
\* src, their ids are the next unused ids in emission order, and those
\* scheduled for the same time are dispatched in emission order.
C24_EmissionsInOrder ==
    [][dispatch_log' # dispatch_log =>
         LET d == Last(dispatch_log')
         IN  /\ \A x \in events : x.id < event_count
             /\ \A i \in 1..Len(d.emitted) :
                   /\ d.emitted[i].src = d.entry.dest
                   /\ d.emitted[i].id = event_count + i - 1
                   /\ d.emitted[i].time >= clock'
                   /\ d.emitted[i] \in events'
             /\ event_count' = event_count + Len(d.emitted)
             /\ EmissionOrderKept(dispatch_log')]_vars

\* A node's handler emitted two messages for the same time and the
\* network duplicated a message, and in both cases a later emission has
\* been dispatched.
C24_Witness ==
    /\ \E k, q \in 1..Len(dispatch_log) :
          /\ dispatch_log[k].entry.dest \in NodeIds
          /\ Len(dispatch_log[k].emitted) >= 2
          /\ dispatch_log[k].emitted[1].time = dispatch_log[k].emitted[2].time
          /\ dispatch_log[q].entry = dispatch_log[k].emitted[2]
    /\ \E k, q \in 1..Len(dispatch_log) :
          /\ dispatch_log[k].entry.dest = NetId
          /\ Len(dispatch_log[k].emitted) >= 2
          /\ dispatch_log[q].entry = dispatch_log[k].emitted[2]

\* The facade call just made is one of the two stepping calls that wait
\* for a local message.
SteppedUntilLocalMessage ==
    /\ ops' # ops
    /\ call'.op \in {"step_until_local_message", "step_until_local_message_max_steps"}

\* C25: a call of step_until_local_message, with or without a step cap,
\* that returns Err leaves the mailbox of dst empty; a call after which a
\* message has arrived for dst (the mailbox was or became non-empty)
\* returns Ok; and a call that returns Ok hands back the whole mailbox and
\* leaves it empty.
C25_ErrOnlyWithoutMessages ==
    [][SteppedUntilLocalMessage =>
         LET dst == CallId(call')
         IN  /\ ~call'.ret.ok => actors'[dst].local_mailbox = <<>>
             /\ call'.ret.ok =>
                   /\ call'.ret.messages # <<>>
                   /\ actors'[dst].local_mailbox = <<>>]_vars

\* C26: step_until_local_message_max_steps pops at most max_steps entries
\* before it returns.
C26_AtMostMaxSteps ==
    [][(ops' # ops /\ call'.op = "step_until_local_message_max_steps") =>
         \A max_steps \in call'.arg[2] : call'.ret.steps <= max_steps]_vars

\* C27: a facade call that names a node address takes effect only if a
\* node is registered at that address; on an unregistered address it
\* aborts and changes nothing.
C27_UnregisteredAddressAborts ==
    [][(ops' # ops /\ call'.op \in {"send_local", "crash_node"}) =>
          call'.arg[1] \subseteq DOMAIN actors]_vars

\* The messages of the LocalMessageSend records of a wrapper, in order.
LocalSends(w) ==
    LET sends == SelectSeq(w.local_events, LAMBDA le : le.tip = "LocalMessageSend")
    IN  [i \in 1..Len(sends) |-> sends[i].msg]

IsPrefix(s, t) == Len(s) <= Len(t) /\ SubSeq(t, 1, Len(s)) = s
IsSuffix(s, t) == Len(s) <= Len(t) /\ SubSeq(t, Len(t) - Len(s) + 1, Len(t)) = s

\* C28: check_mailbox(dst) returns the mailbox of dst as it was (nothing
\* when it was empty) and leaves it empty, touching nothing else; the
\* mailbox always holds the messages of the latest send_local calls of the
\* node in emission order, every send_local outside a draining call
\* appending exactly its message; and no step removes a record from a
\* node's local-event log.
C28_CheckMailboxDrains ==
    [][/\ (ops' # ops /\ call'.op = "check_mailbox") =>
             LET dst == CallId(call')
             IN  /\ call'.ret.messages = actors[dst].local_mailbox
                 /\ call'.ret.ok = (actors[dst].local_mailbox # <<>>)
                 /\ actors'[dst] = [actors[dst] EXCEPT !.local_mailbox = <<>>]
                 /\ \A n \in DOMAIN actors \ {dst} : actors'[n] = actors[n]
                 /\ UNCHANGED <<clock, events, net, dispatch_log>>
       /\ \A n \in DOMAIN actors :
             /\ IsPrefix(actors[n].local_events, actors'[n].local_events)
             /\ IsSuffix(actors'[n].local_mailbox, LocalSends(actors'[n]))
             /\ ops' = ops =>
                   /\ IsPrefix(LocalSends(actors[n]), LocalSends(actors'[n]))
                   /\ actors'[n].local_mailbox =
                         actors[n].local_mailbox
                            \o SubSeq(LocalSends(actors'[n]), Len(LocalSends(actors[n])) + 1,
                                      Len(LocalSends(actors'[n])))]_vars

\* check_mailbox has just handed back two different messages in the order
\* in which the node sent them, the mailbox is empty, and the node's log
\* still holds the local message it received and the two it sent.
C28_Witness ==
    /\ call.op = "check_mailbox"
    /\ call.ret.messages = <<JsonMessage("NOTE", "1"), JsonMessage("NOTE", "2")>>
    /\ actors[CallId(call)].local_mailbox = <<>>
    /\ Len(actors[CallId(call)].local_events) = 3
    /\ LocalSends(actors[CallId(call)]) = call.ret.messages

\* The single-message scenario has run to quiescence: the only facade call
\* was send_local("ping", a) on the fresh two-node system with delay 1.0,
\* and every event it caused has been dispatched.
SingleMessageDone ==
    /\ ops = 1
    /\ call.op = "send_local"
    /\ call.arg = <<{"a"}, {"ping"}>>
    /\ events = {}
    /\ dispatch_log # <<>>

\* What the scenario leaves in the counters.
SingleMessageCounters ==
    /\ net.message_count = 1
    /\ actors["a"].sent_message_count = 1
    /\ actors["b"].received_message_count = 1

\* C29 as stated: at quiescence the log of b holds one LocalMessageReceive
\* of the ping at 1.0 and one LocalMessageSend of the ack at 1.0, and the
\* counters are one.
C29_AsStated ==
    SingleMessageDone =>
       /\ actors["b"].local_events =
             <<[time |-> Ticks(1), msg |-> JsonMessage("ping", "m"),
                tip |-> "LocalMessageReceive"],
               [time |-> Ticks(1), msg |-> JsonMessage("ack", "m"),
                tip |-> "LocalMessageSend"]>>
       /\ SingleMessageCounters

\* C29: at quiescence the log of b holds exactly one record, the
\* LocalMessageSend of the ack at 1.0; the LocalMessageReceive of the ping
\* is in the log of a, at 0.0; the network has counted one message, a has
\* sent one and b has received one.
C29_SingleMessage ==
    SingleMessageDone =>
       /\ actors["b"].local_events =
             <<[time |-> Ticks(1), msg |-> JsonMessage("ack", "m"),
                tip |-> "LocalMessageSend"]>>
       /\ actors["a"].local_events =
             <<[time |-> 0, msg |-> JsonMessage("ping", "m"),
                tip |-> "LocalMessageReceive"]>>
       /\ SingleMessageCounters

\* The scenario has run to quiescence in three dispatches: the local
\* message at a, the MessageSend at the network, the MessageReceive at b.
C29_Witness ==
    /\ SingleMessageDone
    /\ Len(dispatch_log) = 3
    /\ clock = Ticks(1)
    /\ actors["b"].local_mailbox = <<JsonMessage("ack", "m")>>

\* Every maximal selection order of the frame from state s, in depth-first
\* order (at each level the events of the frame by increasing index), with
\* the value of the predicate in the state it ends in.
RECURSIVE LeafOrders(_, _, _)
RECURSIVE LeafOrdersFrom(_, _, _, _)
LeafOrders(chk, s, frame) ==
    IF frame = <<>>
    THEN <<[path |-> <<>>, frame_len |-> 0, result |-> CheckFn(chk, s.actors)]>>
    ELSE LeafOrdersFrom(chk, s, frame, 1)

LeafOrdersFrom(chk, s, frame, i) ==
    IF i > Len(frame) THEN <<>>
    ELSE LET r == StepEntry(s, frame[i])
             sub == LeafOrders(chk, r.s, RemoveAt(frame, i) \o r.emitted)
         IN  [k \in 1..Len(sub) |->
                 [sub[k] EXCEPT !.path = <<<<frame[i].id, frame[i].time>>>> \o @]]
             \o LeafOrdersFrom(chk, s, frame, i + 1)

\* The evaluations up to and including the first that returned false.
UpToFirstFalse(evals) ==
    IF \A k \in 1..Len(evals) : evals[k].result THEN evals
    ELSE SubSeq(evals, 1, CHOOSE k \in 1..Len(evals) :
                             /\ ~evals[k].result
                             /\ \A j \in 1..(k - 1) : evals[j].result)

\* C30: when the checker has returned and never found the deadline
\* exceeded, the evaluations of check it made are those at the ends of the
\* maximal selection orders of the pending events, one per order, in
\* depth-first order, up to and including the first that returned false;
\* each was made with an empty frame.
C30_ChecksEveryMaximalOrder ==
    (McReturned /\ ~mc_hist.timed_out) =>
        /\ mc_hist.evals =
              UpToFirstFalse(LeafOrders(mc_check, mc_hist.entry, mc_hist.entry_frame))
        /\ \A k \in 1..Len(mc_hist.evals) : mc_hist.evals[k].frame_len = 0

\* The checker went through several selection orders, one of which
\* dispatched an event ahead of an event with an earlier time, and
\* stopped at an evaluation that returned false while orders were left.
C30_Witness ==
    /\ McReturned
    /\ ~mc_hist.timed_out
    /\ Len(mc_hist.evals) >= 2
    /\ ~mc_result
    /\ Len(mc_hist.evals)
          < Len(LeafOrders(mc_check, mc_hist.entry, mc_hist.entry_frame))
    /\ \E k \in 1..Len(mc_hist.evals) :
          \E i, j \in 1..Len(mc_hist.evals[k].path) :
             i < j /\ mc_hist.evals[k].path[i][2] > mc_hist.evals[k].path[j][2]

\* C31: the number of draws the network makes for a MessageSend it handles
\* follows from what became of the message: none when the sender is
\* crashed, one when the message is dropped, four when one copy is
\* delivered, five when it is duplicated.
C31_DrawsPerOutcome ==
    [][(dispatch_log' # dispatch_log /\ ops' = ops) =>
         LET d == Last(dispatch_log')
         IN  NetHandledSend(d) =>
                /\ d.entry.event.src \in net.crashed_nodes => d.draws = 0
                /\ (d.entry.event.src \notin net.crashed_nodes /\ d.emitted = <<>>) =>
                      d.draws = 1
                /\ Len(d.emitted) = 1 => d.draws = 4
                /\ Len(d.emitted) >= 2 => d.draws = 5]_vars

\* The timer actions on_timer hands back for the timer named name, at a
\* node in the given state: does one of them set name, does one cancel it?
OnTimerSets(n, state, name) ==
    \E i \in 1..Len(NodeOnTimer(n, state, name).timer_actions) :
       LET t == NodeOnTimer(n, state, name).timer_actions[i]
       IN  t[1] = name /\ t[2] >= 0

OnTimerCancels(n, state, name) ==
    \E i \in 1..Len(NodeOnTimer(n, state, name).timer_actions) :
       NodeOnTimer(n, state, name).timer_actions[i] = <<name, -1>>

\* C32: when a step hands TimerFired{name} to a healthy node, the entry
\* (node, name) is gone from the timer table before on_timer runs: if
\* on_timer sets name again, the table afterwards holds the id of the
\* TimerFired event this very step emitted; if on_timer cancels name, no
\* event is canceled and the table has no entry; if it does neither, the
\* table has no entry.
C32_FiredTimerForgotten ==
    [][(dispatch_log' # dispatch_log /\ ops' = ops) =>
         LET d    == Last(dispatch_log')
             n    == d.entry.dest
             name == d.entry.event.name
             key  == <<n, name>>
         IN  (d.outcome = "handled" /\ d.entry.event.type = "TimerFired") =>
                IF OnTimerSets(n, actors[n].node_state, name)
                THEN /\ key \in DOMAIN actors'[n].timers
                     /\ actors'[n].timers[key] # d.entry.id
                     /\ \E i \in 1..Len(d.emitted) :
                           /\ d.emitted[i].id = actors'[n].timers[key]
                           /\ d.emitted[i].event = TimerFired(name)
                           /\ d.emitted[i].dest = n
                ELSE /\ key \notin DOMAIN actors'[n].timers
                     /\ OnTimerCancels(n, actors[n].node_state, name) =>
                           canceled_events' = canceled_events]_vars

\* Timer "p" fired at node a and was set again by on_timer: the table
\* points to the event that firing emitted, which is still pending; and
\* timer "x" fired and canceled its own name, with nothing canceled.
C32_Witness ==
    /\ \E i \in 1..Len(dispatch_log) :
          LET d == dispatch_log[i]
          IN  /\ d.outcome = "handled"
              /\ d.entry.event = TimerFired("p")
              /\ <<"a", "p">> \in DOMAIN actors["a"].timers
              /\ \E j \in 1..Len(d.emitted) :
                    /\ d.emitted[j].id = actors["a"].timers[<<"a", "p">>]
                    /\ d.emitted[j] \in events
    /\ \E i \in 1..Len(dispatch_log) :
          /\ dispatch_log[i].outcome = "handled"
          /\ dispatch_log[i].entry.event = TimerFired("x")
    /\ canceled_events = {}

\* The clock after the entries from..i of a dispatch log were popped,
\* starting from clock t0: a canceled entry leaves the clock alone, any
\* other entry sets it to its time.
ClockAfter(t0, log, from, i) ==
    LET moved == {j \in from..i : log[j].outcome # "canceled"}
    IN  IF moved = {} THEN t0
        ELSE log[CHOOSE j \in moved : \A l \in moved : l <= j].entry.time

\* C33: step_for_duration(d), called at clock t0, pops an entry only when
\* the clock is below t0 + d; when it returns the queue is empty or the
\* clock is at least t0 + d; with d = 0 it pops nothing.
C33_StepsWithinDuration ==
    [][(ops' # ops /\ call'.op = "step_for_duration") =>
         \A d \in call'.arg[1] :
            /\ \A i \in (Len(dispatch_log) + 1)..Len(dispatch_log') :
                  ClockAfter(clock, dispatch_log', Len(dispatch_log) + 1, i - 1) < clock + d
            /\ (events' = {} \/ clock' >= clock + d)
            /\ d = 0 => dispatch_log' = dispatch_log]_vars

\* The entries among from..Len(log) of a dispatch log that were popped for
\* an address nobody registered, in order.
UndeliveredSince(log, from) ==
    LET new == SubSeq(log, from, Len(log))
        und == SelectSeq(new, LAMBDA d : d.outcome = "undelivered")
    IN  [i \in 1..Len(und) |-> und[i].entry]

\* C40: count_undelivered_events returns the number of entries popped for
\* an unregistered destination since the previous call and empties the
\* log: the call returns the length of the log, leaves it empty and pops
\* nothing, and anything else appends to the log exactly the entries it
\* popped for an unregistered destination; so a call that follows another
\* with nothing popped in between returns 0.
C40_CountDrainsUndelivered ==
    [][IF ops' # ops /\ call'.op = "count_undelivered_events"
       THEN /\ call'.ret.count = Len(undelivered_events)
            /\ undelivered_events' = <<>>
            /\ dispatch_log' = dispatch_log
       ELSE undelivered_events' =
               undelivered_events \o UndeliveredSince(dispatch_log', Len(dispatch_log) + 1)]_vars

\* A message for address "c" was popped and logged, and the count that
\* followed returned 1 and left the log empty.
C40_Witness ==
    /\ call.op = "count_undelivered_events"
    /\ call.ret.count = 1
    /\ undelivered_events = <<>>
    /\ \E i \in 1..Len(dispatch_log) : dispatch_log[i].outcome = "undelivered"

\* A step that dispatched an entry: step() of the facade, or the step the
\* checker takes on the entry it selected.
Dispatching ==
    \/ dispatch_log' # dispatch_log
    \/ mc_pc = "loop" /\ mc_hist'.steps = mc_hist.steps + 1

\* The entries a dispatching step scheduled: they went to the queue, or
\* to the frame of the checker.
Scheduled ==
    IF mc_pc = "idle" THEN events' \ events
    ELSE {mc_events'[i] : i \in Len(mc_events)..Len(mc_events')}

\* C34: the id emit returns is the id the kernel gives the entry when it
\* inserts it, under step() and under the checker: whenever a dispatching
\* step leaves a new id in a timer table under (n, name), the entry the
\* kernel scheduled in that step under this id is the TimerFired{name}
\* from n to n; and the ids the step handed out are the event counter's
\* consecutive values.
C34_EmitIdIsKernelId ==
    [][Dispatching =>
         /\ \A n \in NodeIds : \A key \in DOMAIN actors'[n].timers :
               (key \notin DOMAIN actors[n].timers
                   \/ actors[n].timers[key] # actors'[n].timers[key]) =>
                  \E e \in Scheduled :
                     /\ e.id = actors'[n].timers[key]
                     /\ e.event = TimerFired(key[2])
                     /\ e.src = n /\ e.dest = n
         /\ {e.id : e \in Scheduled} = event_count..(event_count' - 1)
         /\ Cardinality(Scheduled) = event_count' - event_count]_vars

\* The checker dispatched the local message that sets timer "t" at node
\* a, after a step that had already used up ids: the table holds a
\* non-zero id, and the frame holds the TimerFired entry with that id.
C34_Witness ==
    /\ mc_pc = "loop"
    /\ mc_hist.path # <<>>
    /\ Last(mc_hist.path).entry.event = LocalMessageReceive(JsonMessage("SET", "m"))
    /\ <<"a", "t">> \in DOMAIN actors["a"].timers
    /\ actors["a"].timers[<<"a", "t">>] > 1
    /\ \E i \in 1..Len(mc_events) :
          /\ mc_events[i].id = actors["a"].timers[<<"a", "t">>]
          /\ mc_events[i].event = TimerFired("t")

\* The pending TimerFired{name} entries for node n that are not canceled.
PendingTimers(evs, canceled, n, name) ==
    {e \in evs : e.dest = n /\ e.event = TimerFired(name) /\ e.id \notin canceled}

\* Between steps the timer table of every healthy node n has an entry
\* (n, name) exactly when one TimerFired{name} for n is pending and not
\* canceled, and the entry holds its id.
TimerTableMatchesPending(acts, evs, canceled) ==
    \A n \in DOMAIN acts : \A name \in TimerNames :
       acts[n].status = Healthy =>
          LET pending == PendingTimers(evs, canceled, n, name)
              key     == <<n, name>>
          IN  /\ key \in DOMAIN acts[n].timers <=> Cardinality(pending) = 1
              /\ key \in DOMAIN acts[n].timers =>
                    \A e \in pending : e.id = acts[n].timers[key]

\* C35: the timer table matches the pending timers after every step, and
\* so a TimerFired{name} is handed to a node only while the table of the
\* node holds the id of that entry under name: none after cancel_timer
\* until the name is set again.
C35_TimerTableInvariant ==
    [][/\ TimerTableMatchesPending(actors', events', canceled_events')
       /\ (dispatch_log' # dispatch_log /\ ops' = ops) =>
             LET d   == Last(dispatch_log')
                 key == <<d.entry.dest, d.entry.event.name>>
             IN  (d.outcome = "handled" /\ d.entry.event.type = "TimerFired") =>
                    /\ key \in DOMAIN actors[d.entry.dest].timers
                    /\ actors[d.entry.dest].timers[key] = d.entry.id]_vars

\* C38: for every registered id the three records of a crash agree: the
\* id is in the crashed set of the facade exactly when it is in the
\* crashed set of the network, and exactly when the wrapper registered
\* under it is inactive.
C38_CrashBookkeepingAgrees ==
    \A id \in DOMAIN actors :
       /\ (id \in crashed_nodes) = (id \in net.crashed_nodes)
       /\ (id \in crashed_nodes) = ~IsActive(actors[id])

\* Node a was crashed, in all three records, and add_node has recovered
\* it.
C38_Witness ==
    /\ call.op = "add_node"
    /\ call.arg = <<{"a"}>>
    /\ "a" \in call.before.crashed_nodes
    /\ "a" \notin crashed_nodes
    /\ IsActive(actors["a"])

\* A wrapper as NodeActor::new leaves it, as far as a test can see it.
FreshWrapper(w) ==
    /\ w.sent_message_count = 0
    /\ w.received_message_count = 0
    /\ w.timers = EmptyMap
    /\ w.local_mailbox = <<>>
    /\ w.local_events = <<>>

\* C39: add_node on a registered id leaves a wrapper with zero counters
\* and an empty timer table, mailbox and local-event log; and as long as
\* that add_node is the last call of the facade, every entry popped for
\* the id that is not canceled, whenever it was scheduled, is handled,
\* by one run of the handler on the wrapper now registered.
C39_ReplacedWrapperInheritsEvents ==
    [][/\ (ops' # ops /\ call'.op = "add_node") =>
             \A id \in call'.arg[1] :
                id \in DOMAIN actors => FreshWrapper(actors'[id])
       /\ (dispatch_log' # dispatch_log /\ ops' = ops /\ call.op = "add_node") =>
             \A n \in call.arg[1] :
                LET d == Last(dispatch_log')
                IN  (n \in call.before.registered /\ d.entry.dest = n /\ ~d.canceled) =>
                       /\ d.outcome = "handled"
                       /\ HandlerRanOnce(actors[n], actors'[n], d.entry)]_vars

\* Node b set timer "t" and was replaced by add_node; the timer of the
\* old instance has fired at the new one, whose local-event log holds
\* the report of the timer and nothing of the old instance.
C39_Witness ==
    /\ call.op = "add_node"
    /\ call.arg = <<{"b"}>>
    /\ "b" \in call.before.registered
    /\ dispatch_log # <<>>
    /\ Last(dispatch_log).entry.event = TimerFired("t")
    /\ Last(dispatch_log).entry.dest = "b"
    /\ Last(dispatch_log).outcome = "handled"
    /\ Len(actors["b"].local_events) = 1
    /\ actors["b"].local_events[1].msg = JsonMessage("FIRED", "t")
    /\ actors["b"].timers = EmptyMap

\* C36: when an invocation of model_checking_step returns, with true,
\* with false or at the deadline, the frame holds the entries it held
\* when the invocation was entered, in the same positions; and the ids of
\* the entries of the frame are pairwise distinct at every moment.
C36_FrameRestoredOnReturn ==
    [][/\ Len(mc_stack') < Len(mc_stack) => mc_events' = Last(mc_stack).entry_events
       /\ (mc_pc' = "return" /\ Len(mc_stack') = Len(mc_stack) /\ mc_pc = "loop") =>
             mc_events' = <<>>
       /\ \A i, j \in 1..Len(mc_events') :
             i # j => mc_events'[i].id # mc_events'[j].id]_vars

\* The outermost invocation was entered with two entries or more, has
\* dispatched entries and has returned false: the frame is the one the
\* checker was started with.
C36_Witness ==
    /\ mc_pc = "return"
    /\ mc_stack = <<>>
    /\ ~mc_result
    /\ mc_hist.steps >= 3
    /\ Len(mc_hist.entry_frame) >= 2
    /\ mc_events = mc_hist.entry_frame

\* The handler runs on the path the checker is exploring, in order.
HandledOnPath == SelectSeq(mc_hist.path, LAMBDA p : p.outcome = "handled")

\* C37: when run_model_checking has returned, the clock and the
\* undelivered-events log of the kernel are what they were when it was
\* called; and along the path being explored no handler sees a clock
\* below the clock an earlier handler of the path saw.
C37_CheckerLeavesClockAndLog ==
    /\ (mc_pc = "return" /\ mc_stack = <<>>) =>
          /\ clock = mc_hist.entry.clock
          /\ undelivered_events = mc_hist.entry.undelivered_events
    /\ mc_pc # "idle" =>
          \A i, j \in 1..Len(HandledOnPath) :
             i < j => HandledOnPath[i].entry.time <= HandledOnPath[j].entry.time

====
